---- MODULE Spec2Model ----
(***************************************************************************)
(* Model of the knowledge-base pipeline of KnowledgeBaseAgent:             *)
(*   - the markdown chunker (splitMarkdownIntoChunks),                     *)
(*   - the lexical relevance scorer (calculateRelevanceScore),             *)
(*   - the in-memory indexes MarkdownReaderService and                     *)
(*     GitHubRAGSearchService,                                             *)
(*   - the vector-backed retrieval workflow (github-rag-workflow).         *)
(* Strings are TLA+ strings, i.e. sequences of characters: Len, SubSeq and *)
(* \o act on them character by character, so every string operation of    *)
(* the source is computed, not assumed.                                    *)
(***************************************************************************)
EXTENDS Integers, Sequences, FiniteSets, TLC

VARIABLES
    documents,        \* MarkdownReaderService.documents
    knowledgeBase,    \* GitHubRAGSearchService.knowledgeBase
    isInitialized,    \* GitHubRAGSearchService.isInitialized
    repo,             \* the remote repository: its markdown files (collaborator)
    result,           \* what the last operation returned or threw
    calls,            \* the collaborator calls the last operation issued
    lines,            \* chunker pass: content.split("\n")
    pos,              \* chunker pass: index of the next line of the for loop
    currentChunk,     \* chunker pass: the accumulator
    currentTitle,     \* chunker pass
    currentSection,   \* chunker pass
    chunkLineCount,   \* chunker pass
    chunks,           \* chunker pass: chunks pushed so far (before the filter)
    lastStep,         \* chunker pass: what the last iteration did
    scoreDoc,         \* scorer run: the chunk handed to calculateRelevanceScore
    scoreQuery,       \* scorer run: the query as typed (before toLowerCase)
    scoreOut,         \* scorer run: outcome of calculateRelevanceScore
    store,            \* vector workflow: rows held by the LibSQL vector index
    wf                \* vector workflow: the run in progress (step, data passed on)

serviceVars == <<documents, knowledgeBase, isInitialized, repo, result, calls>>
passVars == <<lines, pos, currentChunk, currentTitle, currentSection,
              chunkLineCount, chunks, lastStep>>
scoreVars == <<scoreDoc, scoreQuery, scoreOut>>
wfVars == <<store, wf>>
vars == <<serviceVars, passVars, scoreVars, wfVars>>

-----------------------------------------------------------------------------
(* String primitives of the JavaScript runtime, on the characters used.    *)

Char(s, i) == SubSeq(s, i, i)

\* The white space String.prototype.trim and the regex class \s strip.
WhiteSpace == {" ", "\t", "\n", "\r"}

Max(a, b) == IF a >= b THEN a ELSE b
Min(a, b) == IF a <= b THEN a ELSE b

\* Index of the first character that is not white space (Len(s)+1 if none).
firstNonWs(s) ==
    CHOOSE i \in 1..(Len(s) + 1) :
        /\ (i = Len(s) + 1 \/ Char(s, i) \notin WhiteSpace)
        /\ \A j \in 1..(i - 1) : Char(s, j) \in WhiteSpace

\* Index of the last character that is not white space (0 if none).
lastNonWs(s) ==
    CHOOSE i \in 0..Len(s) :
        /\ (i = 0 \/ Char(s, i) \notin WhiteSpace)
        /\ \A j \in (i + 1)..Len(s) : Char(s, j) \in WhiteSpace

\* String.prototype.trim
trim(s) == SubSeq(s, firstNonWs(s), lastNonWs(s))

\* String.prototype.startsWith
startsWith(s, prefix) ==
    Len(s) >= Len(prefix) /\ SubSeq(s, 1, Len(prefix)) = prefix

\* String.prototype.substring(from) with a 0-based index
substring(s, from) == SubSeq(s, from + 1, Len(s))

\* String.prototype.includes
includes(s, w) ==
    \E i \in 1..(Len(s) - Len(w) + 1) : SubSeq(s, i, i + Len(w) - 1) = w

UpperCase == "ABCDEFGHIJKLMNOPQRSTUVWXYZ"
LowerCase == "abcdefghijklmnopqrstuvwxyz"

\* The lower-case letter of every upper-case one.
lowerOf == [k \in 1..Len(UpperCase) |-> Char(LowerCase, k)]
upperIndex == [c \in {Char(UpperCase, k) : k \in 1..Len(UpperCase)} |->
                 CHOOSE k \in 1..Len(UpperCase) : Char(UpperCase, k) = c]

lowerChar(c) == IF c \in DOMAIN upperIndex THEN lowerOf[upperIndex[c]] ELSE c

\* String.prototype.toLowerCase, character by character (halving keeps the
\* evaluation shallow).
RECURSIVE lowerRange(_, _, _)
lowerRange(s, lo, hi) ==
    IF lo > hi THEN ""
    ELSE IF lo = hi THEN lowerChar(Char(s, lo))
    ELSE LET mid == (lo + hi) \div 2
         IN lowerRange(s, lo, mid) \o lowerRange(s, mid + 1, hi)

toLowerCase(s) == lowerRange(s, 1, Len(s))

\* String.prototype.split(sep) for a one-character separator: the pieces
\* between separators, an empty piece after a trailing separator included.
splitOn(s, sep) ==
    LET cuts == {i \in 1..Len(s) : Char(s, i) = sep}
        starts == {1} \cup {i + 1 : i \in cuts}
        endOf(a) == CHOOSE e \in (a - 1)..Len(s) :
                        /\ (e = Len(s) \/ (e + 1) \in cuts)
                        /\ \A j \in a..e : j \notin cuts
        rank(a) == Cardinality({b \in starts : b <= a})
    IN [k \in 1..Cardinality(starts) |->
            LET a == CHOOSE b \in starts : rank(b) = k
            IN SubSeq(s, a, endOf(a))]

\* String.prototype.split(/\s+/): the pieces between maximal runs of white
\* space; a leading or trailing run leaves an empty first or last piece.
splitWhitespace(s) ==
    LET ws(i) == i >= 1 /\ i <= Len(s) /\ Char(s, i) \in WhiteSpace
        \* a piece starts at 1 and after the last character of every run
        starts == {1} \cup {i + 1 : i \in {j \in 1..Len(s) : ws(j) /\ ~ws(j + 1)}}
        endOf(a) == CHOOSE e \in (a - 1)..Len(s) :
                        /\ (e = Len(s) \/ ws(e + 1))
                        /\ \A j \in a..e : ~ws(j)
        rank(a) == Cardinality({b \in starts : b <= a})
    IN [k \in 1..Cardinality(starts) |->
            LET a == CHOOSE b \in starts : rank(b) = k
            IN SubSeq(s, a, endOf(a))]

-----------------------------------------------------------------------------
(* The markdown chunker: splitMarkdownIntoChunks, the same code in         *)
(* MarkdownReaderService and in GitHubRAGSearchService.                    *)

maxChunkLines == 50
headingSplitLines == 5
minChunkLength == 50

\* The locals of the pass before the first line.
passStart ==
    [currentChunk |-> "", currentTitle |-> "", currentSection |-> "",
     chunkLineCount |-> 0, chunks |-> <<>>]

\* The object every chunks.push builds from the accumulator `acc`.
newChunk(acc, st, path, fileName) ==
    [content |-> trim(acc),
     source |-> path,
     title |-> IF st.currentTitle # "" THEN st.currentTitle ELSE fileName,
     section |-> st.currentSection]

isH1(line) == startsWith(trim(line), "# ")
isH2(line) == ~isH1(line) /\ startsWith(trim(line), "## ")

\* Mutant: a level-1 heading pushes the accumulator whatever it holds.
h1EmitsAlways(st) == TRUE

\* The guard of the push on a level-1 heading.
h1Emits(st) == trim(st.currentChunk) # ""

\* Mutant: the split already at headingSplitLines lines.
h2SplitsFromThreshold(st) ==
    trim(st.currentChunk) # "" /\ st.chunkLineCount >= headingSplitLines

\* Mutant: a level-2 heading never splits.
h2SplitsNever(st) == FALSE

\* The guard of the split on a level-2 heading.
h2Splits(st) == trim(st.currentChunk) # "" /\ st.chunkLineCount > headingSplitLines

\* Mutant: the size-forced split one line late.
sizeSplitsLate(n) == n > maxChunkLines

\* Mutant: the size-forced split only past maxChunkLines + 1 lines.
sizeSplitsPastCeiling(n) == n > maxChunkLines + 1

\* The guard of the size-forced split, on the incremented line count.
sizeSplits(n) == n >= maxChunkLines

\* Branch `if (trimmedLine.startsWith("# "))`.
stepH1(st, line, path, fileName) ==
    LET heading == trim(substring(trim(line), 2))
    IN [chunks |-> IF h1Emits(st)
                   THEN Append(st.chunks, newChunk(st.currentChunk, st, path, fileName))
                   ELSE st.chunks,
        currentTitle |-> heading,
        currentSection |-> heading,
        currentChunk |-> line \o "\n",
        chunkLineCount |-> 1]

\* Branch `else if (trimmedLine.startsWith("## "))`.
stepH2(st, line, path, fileName) ==
    LET split == h2Splits(st)
    IN [chunks |-> IF split
                   THEN Append(st.chunks, newChunk(st.currentChunk, st, path, fileName))
                   ELSE st.chunks,
        currentTitle |-> st.currentTitle,
        currentSection |-> trim(substring(trim(line), 3)),
        currentChunk |-> (IF split THEN "" ELSE st.currentChunk) \o line \o "\n",
        chunkLineCount |-> (IF split THEN 0 ELSE st.chunkLineCount) + 1]

\* Mutant: the size-forced split forgets the section.
stepTextForgetting(st, line, path, fileName) ==
    LET acc == st.currentChunk \o line \o "\n"
        n == st.chunkLineCount + 1
    IN IF sizeSplits(n)
       THEN [chunks |-> Append(st.chunks, newChunk(acc, st, path, fileName)),
             currentTitle |-> st.currentTitle,
             currentSection |-> "",
             currentChunk |-> "",
             chunkLineCount |-> 0]
       ELSE [chunks |-> st.chunks,
             currentTitle |-> st.currentTitle,
             currentSection |-> st.currentSection,
             currentChunk |-> acc,
             chunkLineCount |-> n]

\* Branch `else`: any other line.
stepText(st, line, path, fileName) ==
    LET acc == st.currentChunk \o line \o "\n"
        n == st.chunkLineCount + 1
    IN IF sizeSplits(n)
       THEN [chunks |-> Append(st.chunks, newChunk(acc, st, path, fileName)),
             currentTitle |-> st.currentTitle,
             currentSection |-> st.currentSection,
             currentChunk |-> "",
             chunkLineCount |-> 0]
       ELSE [chunks |-> st.chunks,
             currentTitle |-> st.currentTitle,
             currentSection |-> st.currentSection,
             currentChunk |-> acc,
             chunkLineCount |-> n]

\* One iteration of `for (const line of lines)`.
chunkStep(st, line, path, fileName) ==
    IF isH1(line) THEN stepH1(st, line, path, fileName)
    ELSE IF isH2(line) THEN stepH2(st, line, path, fileName)
    ELSE stepText(st, line, path, fileName)

\* The for loop over lines lo..hi, from the locals `st` (the range is halved
\* so that the evaluation stays shallow; the iterations run in line order).
RECURSIVE chunkLoop(_, _, _, _, _, _)
chunkLoop(st, ls, lo, hi, path, fileName) ==
    IF lo > hi THEN st
    ELSE IF lo = hi THEN chunkStep(st, ls[lo], path, fileName)
    ELSE LET mid == (lo + hi) \div 2
             first == chunkLoop(st, ls, lo, mid, path, fileName)
         IN \* the test makes the first half be evaluated before the second
            IF first.chunkLineCount >= 0
            THEN chunkLoop(first, ls, mid + 1, hi, path, fileName)
            ELSE first

\* Mutant: what the accumulator holds at the end of the input is dropped.
finalFlushNone(st, path, fileName) == st.chunks

\* The push after the loop: `if (currentChunk.trim())`.
finalFlush(st, path, fileName) ==
    IF trim(st.currentChunk) # ""
    THEN Append(st.chunks, newChunk(st.currentChunk, st, path, fileName))
    ELSE st.chunks

\* Mutant: a chunk of exactly minChunkLength characters is kept.
passesFilterFromThreshold(chunk) == Len(chunk.content) >= minChunkLength

\* Mutant: no filter at all.
passesFilterAlways(chunk) == TRUE

\* The predicate of the closing filter.
passesFilter(chunk) == Len(chunk.content) > minChunkLength

\* Every chunk the pass pushes, before the closing filter.
pushedChunks(content, path, fileName) ==
    LET ls == splitOn(content, "\n")
    IN finalFlush(chunkLoop(passStart, ls, 1, Len(ls), path, fileName), path, fileName)

splitMarkdownIntoChunks(content, path, fileName) ==
    SelectSeq(pushedChunks(content, path, fileName), passesFilter)

-----------------------------------------------------------------------------
(* The lexical relevance scorer: calculateRelevanceScore, the same code in *)
(* MarkdownReaderService and in GitHubRAGSearchService.                    *)

\* new RegExp(queryLower, "g") reads the query as a pattern.  Of the
\* characters queries are made of here (letters, digits, space, "#", "."
\* and "("), "." is the wildcard and "(" opens a group; with no ")" among
\* the characters every group is unterminated and the constructor throws
\* a SyntaxError.
regExpThrows(pattern) == \E i \in 1..Len(pattern) : Char(pattern, i) = "("

\* One pattern character against one subject character.
atomMatches(a, c) == IF a = "." THEN c \notin {"\n", "\r"} ELSE a = c

\* The pattern matches the subject at index i.
matchesAt(s, pattern, i) ==
    /\ i + Len(pattern) - 1 <= Len(s)
    /\ \A k \in 1..Len(pattern) : atomMatches(Char(pattern, k), Char(s, i + k - 1))

\* The scan of a global match over start indexes lo..hi: a match at or
\* after `next` is counted and the scan resumes after it (one further on
\* for an empty match).  The range is halved to keep the evaluation shallow.
RECURSIVE matchScan(_, _, _, _, _)
matchScan(acc, s, pattern, lo, hi) ==
    IF lo > hi THEN acc
    ELSE IF lo = hi
    THEN IF lo >= acc.next /\ matchesAt(s, pattern, lo)
         THEN [next |-> lo + Max(Len(pattern), 1), n |-> acc.n + 1]
         ELSE acc
    ELSE LET mid == (lo + hi) \div 2
             left == matchScan(acc, s, pattern, lo, mid)
         IN \* the test makes the left half be evaluated before the right one
            IF left.n >= 0 THEN matchScan(left, s, pattern, mid + 1, hi) ELSE left

\* (s.match(new RegExp(pattern, "g")) || []).length, for a pattern that compiles.
matchCount(s, pattern) ==
    matchScan([next |-> 1, n |-> 0], s, pattern, 1, Len(s) + 1).n

titleWeight == 10
sectionWeight == 5
contentWeight == 1
titleWordBonus == 3
sectionWordBonus == 2
contentWordBonus == 1
minWordLength == 2

\* Mutant: no presence bonus at all.
wordBonusNone(titleLower, sectionLower, contentLower, word) == 0

\* The bonus of one query word: `if (word.length > 2) { ... }`.
wordBonus(titleLower, sectionLower, contentLower, word) ==
    IF Len(word) > minWordLength
    THEN (IF includes(titleLower, word) THEN titleWordBonus ELSE 0)
       + (IF includes(sectionLower, word) THEN sectionWordBonus ELSE 0)
       + (IF includes(contentLower, word) THEN contentWordBonus ELSE 0)
    ELSE 0

\* The loop `for (const word of queryWords)`, from word k on.
RECURSIVE wordBonusFrom(_, _, _, _, _)
wordBonusFrom(titleLower, sectionLower, contentLower, queryWords, k) ==
    IF k > Len(queryWords) THEN 0
    ELSE wordBonus(titleLower, sectionLower, contentLower, queryWords[k])
           + wordBonusFrom(titleLower, sectionLower, contentLower, queryWords, k + 1)

\* The three phrase counts and the word bonus of a query whose pattern compiles.
scoreParts(doc, queryLower) ==
    LET contentLower == toLowerCase(doc.content)
        titleLower == toLowerCase(doc.title)
        sectionLower == toLowerCase(doc.section)
    IN [titleMatches |-> matchCount(titleLower, queryLower),
        sectionMatches |-> matchCount(sectionLower, queryLower),
        contentMatches |-> matchCount(contentLower, queryLower),
        wordBonus |-> wordBonusFrom(titleLower, sectionLower, contentLower,
                                    splitWhitespace(queryLower), 1)]

\* The sum `score` accumulates.
scoreSum(parts) ==
    parts.titleMatches * titleWeight + parts.sectionMatches * sectionWeight
      + parts.contentMatches * contentWeight + parts.wordBonus

\* calculateRelevanceScore: the score (with the counts it is the sum of), or
\* the SyntaxError of new RegExp.
calculateRelevanceScore(doc, queryLower) ==
    IF regExpThrows(queryLower)
    THEN [threw |-> TRUE, error |-> "SyntaxError"]
    ELSE LET parts == scoreParts(doc, queryLower)
         IN [threw |-> FALSE, score |-> scoreSum(parts), parts |-> parts]

-----------------------------------------------------------------------------
(* Input documents.                                                        *)

MaxSegments == 2

\* Body line k of a document.
bodyLine(k) == "line " \o ToString(k) \o "\n"

\* Body lines lo..hi, in order.
RECURSIVE bodyLines(_, _)
bodyLines(lo, hi) ==
    IF lo > hi THEN ""
    ELSE IF lo = hi THEN bodyLine(lo)
    ELSE LET mid == (lo + hi) \div 2 IN bodyLines(lo, mid) \o bodyLines(mid + 1, hi)

\* What a segment of a document opens with: nothing, a blank line, a
\* level-1 heading or a level-2 heading.
Heads == {"none", "blank", "h1", "h2"}

headLine(head, k) ==
    CASE head = "none" -> ""
      [] head = "blank" -> "\n"
      [] head = "h1" -> "# Part " \o ToString(k) \o "\n"
      [] head = "h2" -> "## Topic " \o ToString(k) \o "\n"

\* The text of segment k: its opening line, then n body lines.
segmentText(seg, k) == headLine(seg.head, k) \o bodyLines(1, seg.n)

RECURSIVE shapeTextFrom(_, _)
shapeTextFrom(shape, k) ==
    IF k > Len(shape) THEN ""
    ELSE segmentText(shape[k], k) \o shapeTextFrom(shape, k + 1)

\* The document of a shape (a sequence of segments).
shapeText(shape) == shapeTextFrom(shape, 1)

Segments(counts) == [head : Heads, n : counts]

ShapesOver(counts) ==
    UNION {[1..len -> Segments(counts)] : len \in 1..MaxSegments}

\* Short documents: body lengths around the level-2 split threshold.
ShortCounts == {0, headingSplitLines - 1, headingSplitLines, headingSplitLines + 1}

\* Long documents of one segment: body lengths around the size ceiling.
LongCounts == {maxChunkLines - 1, maxChunkLines, (2 * maxChunkLines) + 20}
LongShapes == {<<seg>> : seg \in Segments(LongCounts)}

\* Level-1 heading, 3 body lines, level-2 heading, 2 body lines, level-2
\* heading, 10 body lines.
PrecedenceShape ==
    <<[head |-> "h1", n |-> 3], [head |-> "h2", n |-> 2], [head |-> "h2", n |-> 10]>>

\* 120 lines and no heading.
HeadinglessShape == <<[head |-> "none", n |-> (2 * maxChunkLines) + 20]>>

IntroDoc == "# Intro\nSome text.\n## Setup\nShort.\n"

\* Six blank lines, then a level-2 heading: an accumulator of more than
\* headingSplitLines lines that trims to nothing.
BlankRunDoc == "\n\n\n\n\n\n## Topic\nline 1\n"

\* n blank lines.
RECURSIVE blankLines(_)
blankLines(n) ==
    IF n = 0 THEN ""
    ELSE IF n = 1 THEN "\n"
    ELSE blankLines(n \div 2) \o blankLines(n - (n \div 2))

\* One blank line short of the size ceiling, then a level-2 heading and two
\* lines of text.
LongBlankRunDoc == blankLines(maxChunkLines - 1) \o "## Topic\nline 1\nline 2\n"

\* A document that opens with an indented line and closes with a line that
\* ends in spaces.
IndentedDoc == "    indented first line\nplain line\nlast line  \n"

PassInputs ==
    {shapeText(sh) : sh \in ShapesOver(ShortCounts) \cup LongShapes \cup {PrecedenceShape}}
      \cup {IntroDoc, BlankRunDoc, LongBlankRunDoc, IndentedDoc}

PassPath == "docs/guide.md"
PassFile == "guide.md"

-----------------------------------------------------------------------------
(* Values of the parts of the state a specification leaves untouched.      *)

NoResult == [op |-> "none"]
NoRepo == <<>>
NoStep == [kind |-> "idle", returned |-> <<>>]
NoChunk == [content |-> "", source |-> "", title |-> "", section |-> ""]
NoScore == [done |-> FALSE]
NoRun == [step |-> "idle", runs |-> 0]

-----------------------------------------------------------------------------
(* One pass of splitMarkdownIntoChunks, an iteration of its loop per step. *)

passLocals ==
    [currentChunk |-> currentChunk, currentTitle |-> currentTitle,
     currentSection |-> currentSection, chunkLineCount |-> chunkLineCount,
     chunks |-> chunks]

InitPass ==
    /\ \E content \in PassInputs : lines = splitOn(content, "\n")
    /\ pos = 1
    /\ currentChunk = passStart.currentChunk
    /\ currentTitle = passStart.currentTitle
    /\ currentSection = passStart.currentSection
    /\ chunkLineCount = passStart.chunkLineCount
    /\ chunks = passStart.chunks
    /\ lastStep = [kind |-> "start", returned |-> <<>>]
    /\ documents = <<>>
    /\ knowledgeBase = <<>>
    /\ isInitialized = FALSE
    /\ repo = NoRepo
    /\ result = NoResult
    /\ calls = <<>>
    /\ scoreDoc = NoChunk
    /\ scoreQuery = ""
    /\ scoreOut = NoScore
    /\ store = <<>>
    /\ wf = NoRun

\* The locals after one iteration.
Iterate(next, kind) ==
    /\ currentChunk' = next.currentChunk
    /\ currentTitle' = next.currentTitle
    /\ currentSection' = next.currentSection
    /\ chunkLineCount' = next.chunkLineCount
    /\ chunks' = next.chunks
    /\ pos' = pos + 1
    /\ lastStep' = [kind |-> kind, returned |-> <<>>]
    /\ UNCHANGED <<lines, serviceVars, scoreVars, wfVars>>

ProcessH1Line ==
    /\ lastStep.kind # "return"
    /\ pos <= Len(lines)
    /\ isH1(lines[pos])
    /\ Iterate(chunkStep(passLocals, lines[pos], PassPath, PassFile), "h1")

ProcessH2Line ==
    /\ lastStep.kind # "return"
    /\ pos <= Len(lines)
    /\ isH2(lines[pos])
    /\ Iterate(chunkStep(passLocals, lines[pos], PassPath, PassFile), "h2")

ProcessTextLine ==
    /\ lastStep.kind # "return"
    /\ pos <= Len(lines)
    /\ ~isH1(lines[pos])
    /\ ~isH2(lines[pos])
    /\ Iterate(chunkStep(passLocals, lines[pos], PassPath, PassFile), "text")

\* After the loop: the last push, the filter and the return.
ReturnChunks ==
    /\ lastStep.kind # "return"
    /\ pos = Len(lines) + 1
    /\ chunks' = finalFlush(passLocals, PassPath, PassFile)
    /\ lastStep' = [kind |-> "return", returned |-> SelectSeq(chunks', passesFilter)]
    /\ UNCHANGED <<lines, pos, currentChunk, currentTitle, currentSection, chunkLineCount>>
    /\ UNCHANGED <<serviceVars, scoreVars, wfVars>>

NextPass ==
    \/ ProcessH1Line
    \/ ProcessH2Line
    \/ ProcessTextLine
    \/ ReturnChunks

\* A chunking pass on its own.
SpecPass == InitPass /\ [][NextPass]_vars

-----------------------------------------------------------------------------
(* One run of calculateRelevanceScore, as searchDocuments and              *)
(* searchKnowledgeBase call it: on a held chunk and the lower-cased query. *)

IntroChunkText == "# Intro\nSome text.\n## Setup\nShort."

GuideDoc ==
    "# Intro\nSome introductory text about the project.\n## Setup\nRun the installer, then follow the steps.\n"

NotesDoc == "Plain notes without any heading (long enough to be kept). Setup is easy.\n"

ManualDoc ==
    "# Setup\nInstall the package first, then run the setup script.\n# Usage\nCall the agent with a question about the repository.\n"

ScoreContents ==
    {IntroChunkText, trim(GuideDoc), trim(NotesDoc),
     "## Setup\nThe setup takes a minute. Read on."}

ScoreDocs ==
    [content : ScoreContents, source : {"docs/guide.md"},
     title : {"Intro", "Setup", "guide.md", "v1.0"}, section : {"Setup", "Intro", ""}]

\* Queries as typed: words, mixed case, white space only, and characters
\* that are special in a regular expression.
Queries == {"setup", "Setup", "intro", "some text", "the steps", "zzz", " ", "  ", ".", "("}

InitScore ==
    /\ scoreDoc \in ScoreDocs
    /\ scoreQuery \in Queries
    /\ scoreOut = NoScore
    /\ documents = <<>>
    /\ knowledgeBase = <<>>
    /\ isInitialized = FALSE
    /\ repo = NoRepo
    /\ result = NoResult
    /\ calls = <<>>
    /\ lines = <<>>
    /\ pos = 1
    /\ currentChunk = ""
    /\ currentTitle = ""
    /\ currentSection = ""
    /\ chunkLineCount = 0
    /\ chunks = <<>>
    /\ lastStep = NoStep
    /\ store = <<>>
    /\ wf = NoRun

\* The call returns or throws.
Score ==
    /\ ~scoreOut.done
    /\ scoreOut' =
         [done |-> TRUE,
          outcome |-> calculateRelevanceScore(scoreDoc, toLowerCase(scoreQuery))]
    /\ UNCHANGED <<scoreDoc, scoreQuery, serviceVars, passVars, wfVars>>

NextScore == Score

SpecScore == InitScore /\ [][NextScore]_vars

-----------------------------------------------------------------------------
(* What the two in-memory services share: the files they are given, the   *)
(* chunks of each file, and map / filter / sort / slice of a search.       *)

MaxDocs == 2

\* A chunk of exactly minChunkLength characters.
EdgeDoc == "# Edge\nThis chunk is exactly fifty characters long\n"

GuideFile == [name |-> "guide.md", path |-> "docs/guide.md", content |-> GuideDoc]
IntroFile == [name |-> "intro.md", path |-> "intro.md", content |-> IntroDoc]
ManualFile == [name |-> "manual.md", path |-> "docs/manual.md", content |-> ManualDoc]
EdgeFile == [name |-> "edge.md", path |-> "edge.md", content |-> EdgeDoc]

FileOrder == <<GuideFile, IntroFile, ManualFile, EdgeFile>>
Files == {FileOrder[i] : i \in 1..Len(FileOrder)}

\* The `documents` parameter of load: up to MaxDocs documents, in any order,
\* repeats included.
DocLists == UNION {[1..n -> Files] : n \in 0..MaxDocs}

\* The markdown files of a repository: up to MaxDocs files, each path once.
RepoLists ==
    {fs \in DocLists :
        \A i, j \in 1..Len(fs) :
            i < j => \E a, b \in 1..Len(FileOrder) :
                        a < b /\ FileOrder[a] = fs[i] /\ FileOrder[b] = fs[j]}

\* splitMarkdownIntoChunks(doc.content, doc.path, doc.name) of every file.
chunksOfFile == [f \in Files |-> splitMarkdownIntoChunks(f.content, f.path, f.name)]

\* The loop `for (const doc of ...) { ...push(...chunks) }`, from document k on.
RECURSIVE chunksOfDocuments(_, _)
chunksOfDocuments(docs, k) ==
    IF k > Len(docs) THEN <<>>
    ELSE chunksOfFile[docs[k]] \o chunksOfDocuments(docs, k + 1)

\* Queries as typed by a caller of search (never empty: see SearchWithoutQuery).
ServiceQueries == {"setup", "the steps", "zzz", " ", "(", "."}

\* Every chunk a collection can hold.
HeldChunks == UNION {{chunksOfFile[f][i] : i \in 1..Len(chunksOfFile[f])} : f \in Files}

\* calculateRelevanceScore(doc, queryLower) of every chunk and query.
scoreOf ==
    [doc \in HeldChunks, query \in ServiceQueries |->
        calculateRelevanceScore(doc, toLowerCase(query))]

\* `{ ...doc, score }` and `({ score, ...doc }) => doc`
withScore(doc, score) ==
    [content |-> doc.content, source |-> doc.source, title |-> doc.title,
     section |-> doc.section, score |-> score]
\* Mutant: the score stays on the chunk handed out.
withoutScoreKeeping(scored) == scored

withoutScore(scored) ==
    [content |-> scored.content, source |-> scored.source, title |-> scored.title,
     section |-> scored.section]

\* Array.prototype.sort((a, b) => b.score - a.score): by decreasing score,
\* elements of equal score in their order of arrival (the sort is stable).
sortByScore(s) ==
    LET before(i, j) == s[i].score > s[j].score \/ (s[i].score = s[j].score /\ i < j)
        rank(i) == 1 + Cardinality({j \in 1..Len(s) : before(j, i)})
    IN [k \in 1..Len(s) |-> s[CHOOSE i \in 1..Len(s) : rank(i) = k]]

\* Array.prototype.slice(0, end): a negative end counts from the end.
slice(s, end) ==
    SubSeq(s, 1, IF end < 0 THEN Max(Len(s) + end, 0) ELSE Min(end, Len(s)))

\* Does scoring the held chunks throw (the first chunk scored does)?
scoringThrows(held, query) ==
    \E i \in 1..Len(held) : scoreOf[held[i], query].threw

\* scoredResults without `.filter((doc) => doc.score > 0)`.
scoredResultsUnfiltered(held, query, maxResults) ==
    LET mapped == [i \in 1..Len(held) |-> withScore(held[i], scoreOf[held[i], query].score)]
    IN slice(sortByScore(mapped), maxResults)

\* .map(score).filter(score > 0).sort(by score).slice(0, maxResults)
scoredResults(held, query, maxResults) ==
    LET mapped == [i \in 1..Len(held) |-> withScore(held[i], scoreOf[held[i], query].score)]
        positive(doc) == doc.score > 0
    IN slice(sortByScore(SelectSeq(mapped, positive)), maxResults)

-----------------------------------------------------------------------------
(* MarkdownReaderService.                                                   *)

readerDefaultMaxResults == 5

\* The values of maxResults a caller passes; the default stands for none.
ReaderMaxResults == {-1, 0, 1, 2, readerDefaultMaxResults}

\* loadDocuments without its first statement `this.documents = []`.
loadDocumentsKeeping(docs) == documents \o chunksOfDocuments(docs, 1)

\* loadDocuments: the new value of this.documents.
loadDocuments(docs) == chunksOfDocuments(docs, 1)

\* searchDocuments: what it returns or throws.
searchDocuments(held, query, maxResults) ==
    IF scoringThrows(held, query)
    THEN [threw |-> TRUE, error |-> "SyntaxError"]
    ELSE LET found == scoredResults(held, query, maxResults)
         IN [threw |-> FALSE, success |-> TRUE,
             results |-> [i \in 1..Len(found) |-> withoutScore(found[i])],
             query |-> query, count |-> Len(found)]

InitReader ==
    /\ documents = <<>>
    /\ result = NoResult
    /\ knowledgeBase = <<>>
    /\ isInitialized = FALSE
    /\ repo = NoRepo
    /\ calls = <<>>
    /\ lines = <<>>
    /\ pos = 1
    /\ currentChunk = ""
    /\ currentTitle = ""
    /\ currentSection = ""
    /\ chunkLineCount = 0
    /\ chunks = <<>>
    /\ lastStep = NoStep
    /\ scoreDoc = NoChunk
    /\ scoreQuery = ""
    /\ scoreOut = NoScore
    /\ store = <<>>
    /\ wf = NoRun

\* action "load" with a documents parameter
Load ==
    \E docs \in DocLists :
        /\ documents' = loadDocuments(docs)
        /\ result' = [op |-> "load", args |-> docs,
                      out |-> [threw |-> FALSE, success |-> TRUE,
                               documentsCount |-> Len(docs),
                               chunksCount |-> Len(documents')]]
        /\ UNCHANGED <<knowledgeBase, isInitialized, repo, calls>>
        /\ UNCHANGED <<passVars, scoreVars, wfVars>>

\* action "load" without a documents parameter
LoadWithoutDocuments ==
    /\ result' = [op |-> "load",
                  out |-> [threw |-> FALSE, success |-> FALSE,
                           error |-> "documents parameter required"]]
    /\ UNCHANGED <<documents, knowledgeBase, isInitialized, repo, calls>>
    /\ UNCHANGED <<passVars, scoreVars, wfVars>>

\* action "search" with a query
Search ==
    \E query \in ServiceQueries, maxResults \in ReaderMaxResults :
        /\ result' = [op |-> "search",
                      args |-> [query |-> query, maxResults |-> maxResults],
                      out |-> searchDocuments(documents, query, maxResults)]
        /\ UNCHANGED <<documents, knowledgeBase, isInitialized, repo, calls>>
        /\ UNCHANGED <<passVars, scoreVars, wfVars>>

\* action "search" with no query, or with the empty string
SearchWithoutQuery ==
    /\ result' = [op |-> "search", args |-> [query |-> ""],
                  out |-> [threw |-> FALSE, success |-> FALSE,
                           error |-> "query parameter required"]]
    /\ UNCHANGED <<documents, knowledgeBase, isInitialized, repo, calls>>
    /\ UNCHANGED <<passVars, scoreVars, wfVars>>

\* action "get_all"
GetAll ==
    /\ result' = [op |-> "get_all",
                  out |-> [threw |-> FALSE, success |-> TRUE,
                           documents |-> documents, count |-> Len(documents)]]
    /\ UNCHANGED <<documents, knowledgeBase, isInitialized, repo, calls>>
    /\ UNCHANGED <<passVars, scoreVars, wfVars>>

Next ==
    \/ Load
    \/ LoadWithoutDocuments
    \/ Search
    \/ SearchWithoutQuery
    \/ GetAll

\* MarkdownReaderService under any sequence of calls of its tool.
Spec == InitReader /\ [][Next]_vars

-----------------------------------------------------------------------------
(* GitHubRAGSearchService: the in-memory index over a GitHub repository.   *)
(* The repository is a collaborator: what it lists, and which requests     *)
(* fail, are inputs of the operation that asks.                            *)

ragDefaultMaxResults == 3
relevantSentenceLimit == 3
excerptLength == 300
summaryLimit == 150
summaryCut == 147

RagMaxResults == {-1, 0, 1, 2, ragDefaultMaxResults}

\* String.prototype.replace(/^#+\s*/, ""): a leading run of "#" and the
\* white space after it are removed; a string without one is left alone.
stripHeadingMarks(s) ==
    LET marks == CHOOSE k \in 0..Len(s) :
                    /\ \A j \in 1..k : Char(s, j) = "#"
                    /\ (k = Len(s) \/ Char(s, k + 1) # "#")
        rest == SubSeq(s, marks + 1, Len(s))
    IN IF marks = 0 THEN s ELSE SubSeq(rest, firstNonWs(rest), Len(rest))

\* content.split("\n\n")[0]
firstParagraph(content) ==
    LET cuts == {i \in 1..(Len(content) - 1) : SubSeq(content, i, i + 1) = "\n\n"}
    IN IF cuts = {} THEN content
       ELSE SubSeq(content, 1, (CHOOSE i \in cuts : \A j \in cuts : i <= j) - 1)

generateSummary(content) ==
    LET paragraph == firstParagraph(content)
    IN stripHeadingMarks(IF Len(paragraph) > summaryLimit
                         THEN SubSeq(paragraph, 1, summaryCut) \o "..."
                         ELSE paragraph)

\* String.prototype.split(/[.!?]\s+/): the pieces between separators, a
\* separator being one of . ! ? and the run of white space after it.
splitSentences(s) ==
    LET ws(i) == i >= 1 /\ i <= Len(s) /\ Char(s, i) \in WhiteSpace
        stop(i) == i >= 1 /\ i <= Len(s) /\ Char(s, i) \in {".", "!", "?"} /\ ws(i + 1)
        runEnd(i) == CHOOSE e \in (i + 1)..Len(s) :
                        /\ \A j \in (i + 1)..e : ws(j)
                        /\ ~ws(e + 1)
        starts == {1} \cup {runEnd(i) + 1 : i \in {j \in 1..Len(s) : stop(j)}}
        endOf(a) == CHOOSE e \in (a - 1)..Len(s) :
                        /\ (e = Len(s) \/ stop(e + 1))
                        /\ \A j \in a..e : ~stop(j)
        rank(a) == Cardinality({b \in starts : b <= a})
    IN [k \in 1..Cardinality(starts) |->
            LET a == CHOOSE b \in starts : rank(b) = k
            IN SubSeq(s, a, endOf(a))]

\* Array.prototype.join(sep), from element k on.
RECURSIVE joinFrom(_, _, _)
joinFrom(parts, sep, k) ==
    IF k > Len(parts) THEN ""
    ELSE IF k = Len(parts) THEN parts[k]
    ELSE parts[k] \o sep \o joinFrom(parts, sep, k + 1)

extractRelevantContent(content, query) ==
    LET sentences == splitSentences(content)
        queryWords == splitWhitespace(toLowerCase(query))
        relevant(sentence) ==
            LET sentenceLower == toLowerCase(sentence)
            IN \E k \in 1..Len(queryWords) :
                  /\ Len(queryWords[k]) > minWordLength
                  /\ includes(sentenceLower, queryWords[k])
        relevantSentences == SelectSeq(sentences, relevant)
    IN IF Len(relevantSentences) > 0
       THEN joinFrom(slice(relevantSentences, relevantSentenceLimit), ". ", 1) \o "."
       ELSE SubSeq(content, 1, Min(excerptLength, Len(content))) \o "..."

\* extractRelevantContent and generateSummary of every chunk and query.
relevantContentOf ==
    [doc \in HeldChunks, query \in ServiceQueries |->
        extractRelevantContent(doc.content, query)]
summaryOf == [doc \in HeldChunks |-> generateSummary(doc.content)]

\* What the repository answers to one initialization: does the listing
\* succeed, and which of the listed files cannot be fetched.
Answers(files) == [listingOk : BOOLEAN, unreadable : SUBSET (1..Len(files))]

\* The answers to choose from: none to speak of when nothing is asked.
AnswersWhen(asked, files) ==
    IF asked THEN Answers(files) ELSE {[listingOk |-> TRUE, unreadable |-> {}]}

\* The requests of one initialization, in the order they are issued.
requestsOf(files, answer) ==
    IF ~answer.listingOk
    THEN <<[call |-> "getMarkdownFiles", path |-> "", ok |-> FALSE]>>
    ELSE <<[call |-> "getMarkdownFiles", path |-> "", ok |-> TRUE]>>
           \o [i \in 1..Len(files) |->
                 [call |-> "getFileContent", path |-> files[i].path,
                  ok |-> i \notin answer.unreadable]]

\* initializeKnowledgeBase(forceReload) on a service holding `held` with the
\* flag `initialized`: the fields after the call, the requests issued, and
\* what the call returns or throws.
initializeKnowledgeBase(held, initialized, forceReload, files, answer) ==
    IF initialized /\ ~forceReload
    THEN [knowledgeBase |-> held, isInitialized |-> initialized, calls |-> <<>>,
          out |-> [threw |-> FALSE, success |-> TRUE,
                   documentsCount |-> Len(held), cached |-> TRUE]]
    ELSE IF ~answer.listingOk
    THEN [knowledgeBase |-> held, isInitialized |-> initialized,
          calls |-> requestsOf(files, answer),
          out |-> [threw |-> TRUE, error |-> "getMarkdownFiles"]]
    ELSE IF answer.unreadable # {}
    THEN [knowledgeBase |-> held, isInitialized |-> initialized,
          calls |-> requestsOf(files, answer),
          out |-> [threw |-> TRUE, error |-> "getFileContent"]]
    ELSE LET loaded == chunksOfDocuments(files, 1)
         IN [knowledgeBase |-> loaded, isInitialized |-> TRUE,
             calls |-> requestsOf(files, answer),
             out |-> [threw |-> FALSE, success |-> TRUE,
                      documentsCount |-> Len(files),
                      chunksCount |-> Len(loaded), cached |-> FALSE]]

\* The scoring part of searchKnowledgeBase, on the chunks held by then.
searchHeld(held, query, maxResults) ==
    IF scoringThrows(held, query)
    THEN [threw |-> TRUE, error |-> "SyntaxError"]
    ELSE LET found == scoredResults(held, query, maxResults)
         IN [threw |-> FALSE, success |-> TRUE, query |-> query,
             results |-> [i \in 1..Len(found) |->
                            [content |-> found[i].content, source |-> found[i].source,
                             title |-> found[i].title, section |-> found[i].section,
                             relevantContent |->
                                 relevantContentOf[withoutScore(found[i]), query],
                             summary |-> summaryOf[withoutScore(found[i])]]],
             count |-> Len(found), totalDocuments |-> Len(held)]

\* searchKnowledgeBase(query, maxResults): the implicit initialization of a
\* service that is not initialized or holds nothing, then the search.
searchKnowledgeBase(held, initialized, query, maxResults, files, answer) ==
    LET implicit == ~initialized \/ Len(held) = 0
        init == IF implicit
                THEN initializeKnowledgeBase(held, initialized, FALSE, files, answer)
                ELSE [knowledgeBase |-> held, isInitialized |-> initialized,
                      calls |-> <<>>, out |-> [threw |-> FALSE, success |-> TRUE]]
    IN [knowledgeBase |-> init.knowledgeBase, isInitialized |-> init.isInitialized,
        calls |-> init.calls,
        out |-> IF init.out.threw THEN init.out
                ELSE IF ~init.out.success
                THEN [threw |-> FALSE, success |-> FALSE,
                      error |-> "cannot initialize the knowledge base"]
                ELSE searchHeld(init.knowledgeBase, query, maxResults)]

InitRAG ==
    /\ repo \in RepoLists
    /\ knowledgeBase = <<>>
    /\ isInitialized = FALSE
    /\ result = NoResult
    /\ calls = <<>>
    /\ documents = <<>>
    /\ lines = <<>>
    /\ pos = 1
    /\ currentChunk = ""
    /\ currentTitle = ""
    /\ currentSection = ""
    /\ chunkLineCount = 0
    /\ chunks = <<>>
    /\ lastStep = NoStep
    /\ scoreDoc = NoChunk
    /\ scoreQuery = ""
    /\ scoreOut = NoScore
    /\ store = <<>>
    /\ wf = NoRun

\* action "init"
InitKnowledgeBase ==
    \E forceReload \in BOOLEAN :
      \E answer \in AnswersWhen(~isInitialized \/ forceReload, repo) :
        LET done == initializeKnowledgeBase(knowledgeBase, isInitialized,
                                            forceReload, repo, answer)
        IN /\ knowledgeBase' = done.knowledgeBase
           /\ isInitialized' = done.isInitialized
           /\ calls' = done.calls
           /\ result' = [op |-> "init", args |-> [forceReload |-> forceReload],
                         out |-> done.out]
           /\ UNCHANGED <<documents, repo, passVars, scoreVars, wfVars>>

\* action "search" with a query
SearchKnowledgeBase ==
    \E query \in ServiceQueries, maxResults \in RagMaxResults :
      \E answer \in AnswersWhen(~isInitialized, repo) :
        LET done == searchKnowledgeBase(knowledgeBase, isInitialized, query,
                                        maxResults, repo, answer)
        IN /\ knowledgeBase' = done.knowledgeBase
           /\ isInitialized' = done.isInitialized
           /\ calls' = done.calls
           /\ result' = [op |-> "search",
                         args |-> [query |-> query, maxResults |-> maxResults],
                         out |-> done.out]
           /\ UNCHANGED <<documents, repo, passVars, scoreVars, wfVars>>

\* performAction without `if (!query)`: the search goes on to initialize.
SearchKnowledgeBaseUnchecked ==
    /\ result' = [op |-> "search", args |-> [query |-> ""],
                  out |-> [threw |-> FALSE, success |-> FALSE,
                           error |-> "query parameter required"]]
    /\ calls' = <<[call |-> "getMarkdownFiles", path |-> "", ok |-> TRUE]>>
    /\ isInitialized' = TRUE
    /\ UNCHANGED <<documents, knowledgeBase, repo>>
    /\ UNCHANGED <<passVars, scoreVars, wfVars>>

\* action "search" with no query, or with the empty string
SearchKnowledgeBaseWithoutQuery ==
    /\ result' = [op |-> "search", args |-> [query |-> ""],
                  out |-> [threw |-> FALSE, success |-> FALSE,
                           error |-> "query parameter required"]]
    /\ calls' = <<>>
    /\ UNCHANGED <<documents, knowledgeBase, isInitialized, repo>>
    /\ UNCHANGED <<passVars, scoreVars, wfVars>>

\* action "status"
GetStatus ==
    /\ result' = [op |-> "status",
                  out |-> [threw |-> FALSE, success |-> TRUE,
                           initialized |-> isInitialized,
                           documentsCount |-> Len(knowledgeBase)]]
    /\ calls' = <<>>
    /\ UNCHANGED <<documents, knowledgeBase, isInitialized, repo>>
    /\ UNCHANGED <<passVars, scoreVars, wfVars>>

NextRAG ==
    \/ InitKnowledgeBase
    \/ SearchKnowledgeBase
    \/ SearchKnowledgeBaseWithoutQuery
    \/ GetStatus

\* GitHubRAGSearchService under any sequence of calls of its tool.
SpecRAG == InitRAG /\ [][NextRAG]_vars

-----------------------------------------------------------------------------
(* The operations that fill the two in-memory collections, on their own.   *)

NextLoad ==
    \/ Load
    \/ LoadWithoutDocuments
    \/ InitKnowledgeBase

SpecLoad == InitRAG /\ [][NextLoad]_vars

-----------------------------------------------------------------------------
(* github-rag-workflow: check-initialization, initialize-vector-store and  *)
(* search-and-answer over the LibSQL vector index.  The repository, the    *)
(* embedding service, the index and the agent are collaborators: whether   *)
(* a request fails is an input of the step that issues it.  MDocument's    *)
(* chunking is a library: a file is known by the number of chunks it makes.*)

MaxRuns == 2
MaxPieces == 2
workflowMaxResults == 5

\* The path of the i-th markdown file of the repository.
pathOf(i) == "docs/file" \o ToString(i) \o ".md"

\* The repositories: up to MaxDocs markdown files of 0..MaxPieces chunks.
WorkflowRepos ==
    UNION {{[i \in 1..n |-> [path |-> pathOf(i), pieces |-> made[i]]] :
               made \in [1..n -> 0..MaxPieces]} : n \in 0..MaxDocs}

\* documentProcessTool: the chunks of one file, `${filePath}:${index}` their id.
processedChunks(file) ==
    [k \in 1..file.pieces |->
        [id |-> file.path \o ":" \o ToString(k - 1), source |-> file.path,
         content |-> "text " \o ToString(k - 1) \o " of " \o file.path]]

\* `allChunks.push(...batchChunks.flat())` over the files from k on; a file
\* whose fetch or chunking threw contributes [].
RECURSIVE allChunksFrom(_, _, _)
allChunksFrom(files, failed, k) ==
    IF k > Len(files) THEN <<>>
    ELSE (IF k \in failed THEN <<>> ELSE processedChunks(files[k]))
           \o allChunksFrom(files, failed, k + 1)

\* The requests of the file loop: a fetch per file, a chunking per fetch
\* that succeeded.
RECURSIVE fileRequestsFrom(_, _, _, _)
fileRequestsFrom(files, fetchFailed, chunkFailed, k) ==
    IF k > Len(files) THEN <<>>
    ELSE <<[call |-> "githubContentTool", ok |-> k \notin fetchFailed]>>
           \o (IF k \in fetchFailed THEN <<>>
               ELSE <<[call |-> "documentProcessTool", ok |-> k \notin chunkFailed]>>)
           \o fileRequestsFrom(files, fetchFailed, chunkFailed, k + 1)

\* vectorStoreTool.execute: the rows after the call, the requests issued and
\* the result; `failure` is the request that throws, if one does.
vectorStoreTool(rows, newChunks, failure) ==
    IF failure = "createIndex"
    THEN [rows |-> rows, calls |-> <<[call |-> "createIndex", ok |-> FALSE]>>,
          out |-> [success |-> FALSE, storedCount |-> 0]]
    ELSE IF failure = "embedMany"
    THEN [rows |-> rows,
          calls |-> <<[call |-> "createIndex", ok |-> TRUE],
                      [call |-> "embedMany", ok |-> FALSE]>>,
          out |-> [success |-> FALSE, storedCount |-> 0]]
    ELSE IF failure = "upsert"
    THEN [rows |-> rows,
          calls |-> <<[call |-> "createIndex", ok |-> TRUE],
                      [call |-> "embedMany", ok |-> TRUE],
                      [call |-> "upsert", ok |-> FALSE]>>,
          out |-> [success |-> FALSE, storedCount |-> 0]]
    ELSE [rows |-> rows \o newChunks,
          calls |-> <<[call |-> "createIndex", ok |-> TRUE],
                      [call |-> "embedMany", ok |-> TRUE],
                      [call |-> "upsert", ok |-> TRUE]>>,
          out |-> [success |-> TRUE, storedCount |-> Len(newChunks)]]

\* vectorSearchTool.execute: `hits` are the rows the index returns for topK
\* (their indices, best first); a request that throws gives the failure result.
vectorSearchTool(rows, hits, ok) ==
    IF ok
    THEN [success |-> TRUE,
          results |-> [k \in 1..Len(hits) |->
                         [content |-> rows[hits[k]].content,
                          source |-> rows[hits[k]].source]],
          count |-> Len(hits)]
    ELSE [success |-> FALSE, results |-> <<>>, count |-> 0]

\* What the index may return for topK: min(topK, rows) rows, in row order or
\* in the reverse order.
Hits(rows, topK) ==
    LET n == Min(topK, Len(rows))
        picks == {p \in SUBSET (1..Len(rows)) : Cardinality(p) = n}
        ascending(p) == [k \in 1..n |-> CHOOSE i \in p : Cardinality({j \in p : j < i}) = k - 1]
        descending(p) == [k \in 1..n |-> CHOOSE i \in p : Cardinality({j \in p : j > i}) = k - 1]
    IN {ascending(p) : p \in picks} \cup {descending(p) : p \in picks}

\* Mutant: the source of every result, repeated as it comes.
sourcesOfEach(results) == [k \in 1..Len(results) |-> results[k].source]

\* `[...new Set(results.map(r => r.source))]`: each source once, in the order
\* of its first result.
sourcesOf(results) ==
    LET first == {k \in 1..Len(results) :
                     \A j \in 1..(k - 1) : results[j].source # results[k].source}
    IN [r \in 1..Cardinality(first) |->
          results[CHOOSE k \in first : Cardinality({j \in first : j < k}) = r - 1].source]

\* No context at all.
relevantContextOfNone(results) == ""

\* The context handed to the agent: "source / content" blocks, joined.
relevantContextOf(results) ==
    joinFrom([k \in 1..Len(results) |->
                "source: " \o results[k].source \o "\n" \o results[k].content],
             "\n\n---\n\n", 1)

\* Mutant: the listing is never taken for empty.
noFilesListedNever(files) == FALSE

\* `if (searchResult.files.length === 0)`
noFilesListed(files) == Len(files) = 0

InitWorkflow ==
    /\ repo \in WorkflowRepos
    /\ store = <<>>
    /\ wf = [step |-> "idle", runs |-> 0]
    /\ documents = <<>>
    /\ knowledgeBase = <<>>
    /\ isInitialized = FALSE
    /\ result = NoResult
    /\ calls = <<>>
    /\ lines = <<>>
    /\ pos = 1
    /\ currentChunk = ""
    /\ currentTitle = ""
    /\ currentSection = ""
    /\ chunkLineCount = 0
    /\ chunks = <<>>
    /\ lastStep = NoStep
    /\ scoreDoc = NoChunk
    /\ scoreQuery = ""
    /\ scoreOut = NoScore

\* A run of the workflow starts: the input, with its defaults filled in.
githubRagWorkflow ==
    /\ wf.step \in {"idle", "done"}
    /\ wf.runs < MaxRuns
    /\ \E forceReload \in BOOLEAN, maxResults \in {1, workflowMaxResults} :
          wf' = [step |-> "check", runs |-> wf.runs + 1,
                 input |-> [forceReload |-> forceReload, maxResults |-> maxResults],
                 rowsAtStart |-> Len(store),
                 trace |-> <<>>]
    /\ UNCHANGED <<store, serviceVars, passVars, scoreVars>>

\* check-initialization without its first statement `if (inputData.forceReload)`.
checkInitializationStepAlwaysProbing ==
    /\ wf.step = "check"
    /\ \E ok \in BOOLEAN, hits \in Hits(store, 1) :
          LET testResult == vectorSearchTool(store, hits, ok)
          IN wf' = [wf EXCEPT !.step = "initialize",
                              !.trace = @ \o <<[call |-> "vectorSearchTool", ok |-> ok]>>]
                     @@ [needsInitialization |->
                            ~testResult.success \/ testResult.count = 0]
    /\ UNCHANGED <<store, serviceVars, passVars, scoreVars>>

\* check-initialization
checkInitializationStep ==
    /\ wf.step = "check"
    /\ \/ /\ wf.input.forceReload
          /\ wf' = [wf EXCEPT !.step = "initialize"] @@ [needsInitialization |-> TRUE]
       \/ /\ ~wf.input.forceReload
          /\ \E ok \in BOOLEAN, hits \in Hits(store, 1) :
                LET testResult == vectorSearchTool(store, hits, ok)
                IN wf' = [wf EXCEPT !.step = "initialize",
                                    !.trace = @ \o <<[call |-> "vectorSearchTool", ok |-> ok]>>]
                           @@ [needsInitialization |->
                                  ~testResult.success \/ testResult.count = 0]
    /\ UNCHANGED <<store, serviceVars, passVars, scoreVars>>

\* initialize-vector-store
initializeVectorStoreStep ==
    /\ wf.step = "initialize"
    /\ \/ /\ ~wf.needsInitialization
          /\ wf' = [wf EXCEPT !.step = "search"]
                     @@ [init |-> [initialized |-> FALSE, processedFiles |-> 0,
                                   storedChunks |-> 0, message |-> "existing data"]]
          /\ store' = store
       \/ /\ wf.needsInitialization
          /\ \E listingOk \in BOOLEAN :
                LET files == IF listingOk THEN repo ELSE <<>>
                    listed == <<[call |-> "githubSearchTool", ok |-> listingOk]>>
                IN IF noFilesListed(files)
                   THEN /\ wf' = [wf EXCEPT !.step = "search", !.trace = @ \o listed]
                                   @@ [init |-> [initialized |-> FALSE, processedFiles |-> 0,
                                                 storedChunks |-> 0,
                                                 message |-> "no markdown files"]]
                        /\ store' = store
                   ELSE \E fetchFailed \in SUBSET (1..Len(files)) :
                        \E chunkFailed \in SUBSET ((1..Len(files)) \ fetchFailed) :
                          LET failed == fetchFailed \cup chunkFailed
                              allChunks == allChunksFrom(files, failed, 1)
                              processedFiles == Len(files) - Cardinality(failed)
                              requests == listed \o fileRequestsFrom(files, fetchFailed,
                                                                     chunkFailed, 1)
                          IN IF Len(allChunks) = 0
                             THEN /\ wf' = [wf EXCEPT !.step = "search",
                                                      !.trace = @ \o requests]
                                             @@ [init |-> [initialized |-> FALSE,
                                                           processedFiles |-> processedFiles,
                                                           storedChunks |-> 0,
                                                           message |-> "no content"]]
                                  /\ store' = store
                             ELSE \E failure \in {"none", "createIndex", "embedMany", "upsert"} :
                                    LET storeResult == vectorStoreTool(store, allChunks, failure)
                                    IN /\ wf' = [wf EXCEPT !.step = "search",
                                                           !.trace = @ \o requests
                                                                       \o storeResult.calls]
                                                  @@ [init |-> [initialized |-> TRUE,
                                                                processedFiles |-> processedFiles,
                                                                storedChunks |->
                                                                    storeResult.out.storedCount,
                                                                message |->
                                                                    IF storeResult.out.success
                                                                    THEN "stored"
                                                                    ELSE "store failed"]]
                                       /\ store' = storeResult.rows
    /\ UNCHANGED <<serviceVars, passVars, scoreVars>>

\* search-and-answer; `agent` is what the knowledge agent does: it is
\* missing, it answers, it answers with no text, or generate throws.
searchAndAnswerStep ==
    /\ wf.step = "search"
    /\ \E ok \in BOOLEAN, hits \in Hits(store, wf.input.maxResults),
          agent \in {"missing", "text", "empty", "error"} :
          LET searchResult == vectorSearchTool(store, hits, ok)
              searched == <<[call |-> "vectorSearchTool", ok |-> ok]>>
              passedOn == [query |-> "setup", initialized |-> wf.init.initialized,
                           processedFiles |-> wf.init.processedFiles,
                           storedChunks |-> wf.init.storedChunks]
          IN IF ~searchResult.success \/ Len(searchResult.results) = 0
             THEN wf' = [step |-> "done", runs |-> wf.runs, input |-> wf.input,
                         rowsAtStart |-> wf.rowsAtStart,
                         found |-> searchResult.results,
                         trace |-> wf.trace \o searched,
                         output |-> [answer |-> "nothing found", sources |-> <<>>,
                                     relevantContext |-> ""] @@ passedOn]
             ELSE wf' = [step |-> "done", runs |-> wf.runs, input |-> wf.input,
                         rowsAtStart |-> wf.rowsAtStart,
                         found |-> searchResult.results,
                         trace |-> wf.trace \o searched
                                     \o (IF agent = "missing" THEN <<>>
                                         ELSE <<[call |-> "agent.generate",
                                                 ok |-> agent # "error"]>>),
                         output |-> [answer |-> CASE agent = "missing" -> "no agent"
                                                  [] agent = "text" -> "answer"
                                                  [] agent = "empty" -> "no answer generated"
                                                  [] agent = "error" -> "generation failed",
                                     sources |-> sourcesOf(searchResult.results),
                                     relevantContext |->
                                         relevantContextOf(searchResult.results)] @@ passedOn]
    /\ UNCHANGED <<store, serviceVars, passVars, scoreVars>>

NextWorkflow ==
    \/ githubRagWorkflow
    \/ checkInitializationStep
    \/ initializeVectorStoreStep
    \/ searchAndAnswerStep

\* Runs of github-rag-workflow, one after the other, on one vector index.
SpecWorkflow == InitWorkflow /\ [][NextWorkflow]_vars

-----------------------------------------------------------------------------
(* GitHubVectorRAGService: init, search, status and clear over the LibSQL  *)
(* index.  The index, the repository and the embedding service are         *)
(* collaborators: whether a request fails is an input of the operation     *)
(* that issues it.  At the sizes here one file batch, one embedding        *)
(* request and one upsert carry all the chunks.                            *)

vectorDefaultMaxResults == 5

\* What the collaborators answer during one initialization: does the probe
\* query succeed, which request throws (if one does), and which files fail
\* to be fetched or chunked.  An answer to a request that is not issued is
\* left out: the probe of a forced initialization, the fetches after a
\* listing that failed.
VectorAnswers(probing, files) ==
    {answer \in [probeOk : BOOLEAN,
                 failure : {"none", "createIndex", "getMarkdownFiles",
                            "embedMany", "upsert"},
                 failed : SUBSET (1..Len(files))] :
        /\ ~probing => answer.probeOk
        /\ answer.failure \in {"createIndex", "getMarkdownFiles"} => answer.failed = {}
        /\ answer.failure = "createIndex" => answer.probeOk}

\* The answers to choose from: none to speak of when nothing is asked.
VectorAnswersWhen(asked, files) ==
    IF asked THEN VectorAnswers(TRUE, files)
    ELSE {[probeOk |-> TRUE, failure |-> "none", failed |-> {}]}

\* initializeVectorStore(forceReload) on an index holding `rows`, the flag
\* being `initialized`: the rows and the flag after the call, the requests
\* issued, and the result (every exception ends in the catch of line 241).
initializeVectorStore(rows, initialized, forceReload, files, answer) ==
    LET created == <<[call |-> "createIndex", ok |-> answer.failure # "createIndex"]>>
        probed == IF forceReload THEN <<>>
                  ELSE <<[call |-> "query", ok |-> answer.probeOk]>>
        listed == <<[call |-> "getMarkdownFiles",
                     ok |-> answer.failure # "getMarkdownFiles"]>>
        fetched == [i \in 1..Len(files) |->
                      [call |-> "getFileContent", ok |-> i \notin answer.failed]]
        allChunks == allChunksFrom(files, answer.failed, 1)
        upTo(requests) == created \o probed \o listed \o fetched \o requests
        failedWith(requests, error) ==
            [rows |-> rows, isInitialized |-> initialized, calls |-> requests,
             out |-> [success |-> FALSE, error |-> error]]
    IN IF answer.failure = "createIndex"
       THEN failedWith(created, "initialization failed")
       ELSE IF ~forceReload /\ answer.probeOk /\ Len(rows) > 0
       THEN [rows |-> rows, isInitialized |-> TRUE, calls |-> created \o probed,
             out |-> [success |-> TRUE, cached |-> TRUE]]
       ELSE IF answer.failure = "getMarkdownFiles"
       THEN failedWith(created \o probed \o listed, "initialization failed")
       ELSE IF Len(files) = 0
       THEN failedWith(created \o probed \o listed, "no markdown files")
       ELSE IF Len(allChunks) = 0
       THEN failedWith(upTo(<<>>), "no content")
       ELSE IF answer.failure = "embedMany"
       THEN failedWith(upTo(<<[call |-> "embedMany", ok |-> FALSE]>>),
                       "initialization failed")
       ELSE IF answer.failure = "upsert"
       THEN failedWith(upTo(<<[call |-> "embedMany", ok |-> TRUE],
                              [call |-> "upsert", ok |-> FALSE]>>),
                       "initialization failed")
       ELSE [rows |-> rows \o allChunks, isInitialized |-> TRUE,
             calls |-> upTo(<<[call |-> "embedMany", ok |-> TRUE],
                              [call |-> "upsert", ok |-> TRUE]>>),
             out |-> [success |-> TRUE, cached |-> FALSE,
                      documentsCount |-> Len(files),
                      chunksCount |-> Len(allChunks)]]

\* The first part of vectorSearch: a service whose flag is down probes the
\* index, adopts the rows it finds, and initializes when it finds none or
\* when the probe throws.
lazyInitialization(rows, initialized, files, probeOk, answer) ==
    LET probed == <<[call |-> "query", ok |-> probeOk]>>
    IN IF initialized
       THEN [rows |-> rows, isInitialized |-> TRUE, calls |-> <<>>,
             out |-> [success |-> TRUE]]
       ELSE IF probeOk /\ Len(rows) > 0
       THEN [rows |-> rows, isInitialized |-> TRUE, calls |-> probed,
             out |-> [success |-> TRUE]]
       ELSE LET done == initializeVectorStore(rows, initialized, FALSE, files, answer)
            IN [done EXCEPT !.calls = probed \o @]

\* vectorSearch(query, maxResults) after its first part `init`: `failure` is
\* the request that throws, if one does, and `hits` the rows the index returns.
vectorSearch(init, query, maxResults, failure, hits) ==
    IF ~init.out.success
    THEN [init EXCEPT !.out = [success |-> FALSE,
                               error |-> "cannot initialize the vector store"]]
    ELSE IF failure = "embed"
    THEN [init EXCEPT !.calls = @ \o <<[call |-> "embed", ok |-> FALSE]>>,
                      !.out = [success |-> FALSE, error |-> "search failed"]]
    ELSE IF failure = "query"
    THEN [init EXCEPT !.calls = @ \o <<[call |-> "embed", ok |-> TRUE],
                                       [call |-> "query", ok |-> FALSE]>>,
                      !.out = [success |-> FALSE, error |-> "search failed"]]
    ELSE [init EXCEPT !.calls = @ \o <<[call |-> "embed", ok |-> TRUE],
                                       [call |-> "query", ok |-> TRUE]>>,
                      !.out = [success |-> TRUE, query |-> query,
                               results |-> [k \in 1..Len(hits) |->
                                              [content |-> init.rows[hits[k]].content,
                                               source |-> init.rows[hits[k]].source]],
                               count |-> Len(hits)]]

\* The index is not made to hold more than MaxRuns generations of the
\* largest file.
rowCap == MaxRuns * MaxPieces

InitVector ==
    /\ repo \in WorkflowRepos
    /\ store = <<>>
    /\ isInitialized = FALSE
    /\ result = NoResult
    /\ calls = <<>>
    /\ wf = NoRun
    /\ documents = <<>>
    /\ knowledgeBase = <<>>
    /\ lines = <<>>
    /\ pos = 1
    /\ currentChunk = ""
    /\ currentTitle = ""
    /\ currentSection = ""
    /\ chunkLineCount = 0
    /\ chunks = <<>>
    /\ lastStep = NoStep
    /\ scoreDoc = NoChunk
    /\ scoreQuery = ""
    /\ scoreOut = NoScore

\* action "init"
VectorInit ==
    \E forceReload \in BOOLEAN :
      \E answer \in VectorAnswers(~forceReload, repo) :
        LET done == initializeVectorStore(store, isInitialized, forceReload, repo, answer)
        IN /\ Len(done.rows) <= rowCap
           /\ store' = done.rows
           /\ isInitialized' = done.isInitialized
           /\ calls' = done.calls
           /\ result' = [op |-> "init", args |-> [forceReload |-> forceReload],
                         out |-> done.out]
           /\ UNCHANGED <<documents, knowledgeBase, repo, wf, passVars, scoreVars>>

\* action "search" with a query; the embedding request and the query of the
\* index are only answered when the search comes to them.
VectorSearch ==
    \E maxResults \in {1, vectorDefaultMaxResults},
       probeOk \in (IF isInitialized THEN {TRUE} ELSE BOOLEAN) :
      \E answer \in VectorAnswersWhen(~isInitialized /\ ~(probeOk /\ Len(store) > 0), repo) :
        LET init == lazyInitialization(store, isInitialized, repo, probeOk, answer)
        IN \E failure \in (IF init.out.success THEN {"none", "embed", "query"}
                           ELSE {"none"}) :
           \E hits \in (IF init.out.success /\ failure = "none"
                        THEN Hits(init.rows, maxResults) ELSE {<<>>}) :
             LET done == vectorSearch(init, "setup", maxResults, failure, hits)
             IN /\ Len(done.rows) <= rowCap
                /\ store' = done.rows
                /\ isInitialized' = done.isInitialized
                /\ calls' = done.calls
                /\ result' = [op |-> "search",
                              args |-> [query |-> "setup", maxResults |-> maxResults],
                              out |-> done.out]
                /\ UNCHANGED <<documents, knowledgeBase, repo, wf, passVars, scoreVars>>

\* action "search" with no query, or with the empty string
VectorSearchWithoutQuery ==
    /\ result' = [op |-> "search", args |-> [query |-> ""],
                  out |-> [success |-> FALSE, error |-> "query parameter required"]]
    /\ calls' = <<>>
    /\ UNCHANGED <<store, isInitialized, documents, knowledgeBase, repo, wf>>
    /\ UNCHANGED <<passVars, scoreVars>>

\* action "status"
VectorStatus ==
    /\ result' = [op |-> "status",
                  out |-> [success |-> TRUE, initialized |-> isInitialized]]
    /\ calls' = <<>>
    /\ UNCHANGED <<store, isInitialized, documents, knowledgeBase, repo, wf>>
    /\ UNCHANGED <<passVars, scoreVars>>

\* action "clear"
VectorClear ==
    /\ isInitialized' = FALSE
    /\ result' = [op |-> "clear", out |-> [success |-> TRUE]]
    /\ calls' = <<>>
    /\ UNCHANGED <<store, documents, knowledgeBase, repo, wf>>
    /\ UNCHANGED <<passVars, scoreVars>>

NextVector ==
    \/ VectorInit
    \/ VectorSearch
    \/ VectorSearchWithoutQuery
    \/ VectorStatus
    \/ VectorClear

\* GitHubVectorRAGService under any sequence of calls of its tool.
SpecVector == InitVector /\ [][NextVector]_vars

-----------------------------------------------------------------------------
(* The three services called without a required parameter, between calls   *)
(* that fill the two in-memory collections.  The vector service is new and *)
(* finds its index as an earlier process left it: empty, or holding the    *)
(* chunk of one file.                                                      *)

InitRequired ==
    /\ repo \in RepoLists
    /\ store \in {<<>>, processedChunks([path |-> pathOf(1), pieces |-> 1])}
    /\ knowledgeBase = <<>>
    /\ isInitialized = FALSE
    /\ result = NoResult
    /\ calls = <<>>
    /\ documents = <<>>
    /\ wf = NoRun
    /\ lines = <<>>
    /\ pos = 1
    /\ currentChunk = ""
    /\ currentTitle = ""
    /\ currentSection = ""
    /\ chunkLineCount = 0
    /\ chunks = <<>>
    /\ lastStep = NoStep
    /\ scoreDoc = NoChunk
    /\ scoreQuery = ""
    /\ scoreOut = NoScore

NextRequired ==
    \/ Load
    \/ LoadWithoutDocuments
    \/ SearchWithoutQuery
    \/ InitKnowledgeBase
    \/ SearchKnowledgeBaseWithoutQuery
    \/ VectorSearchWithoutQuery

SpecRequired == InitRequired /\ [][NextRequired]_vars

-----------------------------------------------------------------------------
(* The batches of an initialization, request by request: the file loop of  *)
(* initialize-vector-store and the two loops of vectorStoreTool.  `calls`  *)
(* is the sequence of requests issued and answers received, `wf` holds the *)
(* locals of the running call.                                             *)

MaxBatch == 3

\* The batch sizes of the configuration (EMBEDDING_BATCH_SIZE,
\* STORE_BATCH_SIZE) and of a caller.
BatchSizes == 1..MaxBatch

\* The locals before a call.
NoBatchRun ==
    [step |-> "idle", batchSize |-> 0, i |-> 0, pending |-> {}, settled |-> <<>>,
     failed |-> {}, allChunks |-> <<>>, chunks |-> <<>>, toolBatchSize |-> 0,
     embeddingBatchSize |-> 0, storeBatchSize |-> 0, allEmbeddings |-> <<>>,
     out |-> "none", needsInitialization |-> FALSE]

\* Mutant: the batchSize of the caller is not looked at.
effectiveBatchSizeConfigured(run) == run.embeddingBatchSize

\* `batchSize || processingConfig.vector.embeddingBatchSize`
effectiveBatchSize(run) ==
    IF run.toolBatchSize # 0 THEN run.toolBatchSize ELSE run.embeddingBatchSize

\* Mutant: no wait between two embedding batches.
delayDueNever(next, n) == FALSE

\* `if (i + effectiveBatchSize < chunks.length)` before the wait.
delayDue(next, n) == next < n

issued(call, arg) == [call |-> call, ev |-> "issued", arg |-> arg, ok |-> TRUE]
completed(call, arg, ok) == [call |-> call, ev |-> "completed", arg |-> arg, ok |-> ok]

RECURSIVE issuedFrom(_, _, _)
issuedFrom(call, from, to) ==
    IF from > to THEN <<>>
    ELSE <<issued(call, from)>> \o issuedFrom(call, from + 1, to)

\* Mutant: the chunks of a batch in the order in which its files settled.
batchChunksAsSettled(files, failed, lo, hi, settled) ==
    allChunksFrom([k \in 1..Len(settled) |-> files[settled[k]]],
                  {k \in 1..Len(settled) : settled[k] \in failed}, 1)

\* `batchChunks.flat()`: Promise.all resolves to the results in the order of
\* `batch`, whatever the order in which the files settled.
batchChunks(files, failed, lo, hi, settled) ==
    allChunksFrom(SubSeq(files, lo, hi), {k - lo + 1 : k \in failed \cap (lo..hi)}, 1)

\* What the embedding provider returns for a text.
embeddingOf(content) == "vector of " \o content

\* Mutant: the vectors of a store batch taken from the start of allEmbeddings.
embeddingBatchFromStart(allEmbeddings, lo, hi) == SubSeq(allEmbeddings, 1, hi - lo)

\* `allEmbeddings.slice(i, i + storeBatchSize)`, as lo = i and hi the end.
embeddingBatch(allEmbeddings, lo, hi) ==
    SubSeq(allEmbeddings, lo + 1, Min(hi, Len(allEmbeddings)))

InitBatch ==
    /\ repo \in WorkflowRepos
    /\ store = <<>>
    /\ wf = NoBatchRun
    /\ calls = <<>>
    /\ knowledgeBase = <<>>
    /\ isInitialized = FALSE
    /\ result = NoResult
    /\ documents = <<>>
    /\ lines = <<>>
    /\ pos = 1
    /\ currentChunk = ""
    /\ currentTitle = ""
    /\ currentSection = ""
    /\ chunkLineCount = 0
    /\ chunks = <<>>
    /\ lastStep = NoStep
    /\ scoreDoc = NoChunk
    /\ scoreQuery = ""
    /\ scoreOut = NoScore

\* initialize-vector-store has listed the files of the repository and enters
\* its file loop with the batch size of the run.
StartFileLoop ==
    /\ wf.step = "idle"
    /\ Len(repo) > 0
    /\ \E batchSize \in 1..MaxDocs, storeBatchSize \in BatchSizes,
          embeddingBatchSize \in BatchSizes :
          wf' = [wf EXCEPT !.step = "files", !.batchSize = batchSize,
                           !.storeBatchSize = storeBatchSize,
                           !.embeddingBatchSize = embeddingBatchSize]
    /\ UNCHANGED <<store, documents, knowledgeBase, isInitialized, repo, result, calls,
                   passVars, scoreVars>>

\* One turn of the file loop up to its `await Promise.all`: the fetch of
\* every file of the batch is issued.
ProcessFileBatch ==
    /\ wf.step = "files"
    /\ wf.pending = {}
    /\ wf.i < Len(repo)
    /\ LET last == Min(wf.i + wf.batchSize, Len(repo))
       IN /\ calls' = calls \o issuedFrom("githubContentTool", wf.i + 1, last)
          /\ wf' = [wf EXCEPT !.pending = (wf.i + 1)..last, !.settled = <<>>]
    /\ UNCHANGED <<store, documents, knowledgeBase, isInitialized, repo, result,
                   passVars, scoreVars>>

\* The function mapped over one file of the batch settles: fetched and
\* chunked, or caught with [] for the file.  When it is the last of the
\* batch, Promise.all resolves and the loop advances.
FileProcessed ==
    /\ wf.step = "files"
    /\ \E k \in wf.pending, ok \in BOOLEAN :
          /\ calls' = calls \o <<completed("githubContentTool", k, ok)>>
          /\ LET failed == IF ok THEN wf.failed ELSE wf.failed \cup {k}
                 settled == Append(wf.settled, k)
                 last == Min(wf.i + wf.batchSize, Len(repo))
             IN wf' = IF wf.pending # {k}
                      THEN [wf EXCEPT !.pending = @ \ {k}, !.failed = failed,
                                      !.settled = settled]
                      ELSE [wf EXCEPT !.pending = {}, !.failed = failed,
                                      !.settled = settled,
                                      !.allChunks = @ \o batchChunks(repo, failed, wf.i + 1,
                                                                     last, settled),
                                      !.i = wf.i + wf.batchSize]
    /\ UNCHANGED <<store, documents, knowledgeBase, isInitialized, repo, result,
                   passVars, scoreVars>>

\* After the file loop: nothing to store, or the call of vectorStoreTool
\* with `batchSize: processingConfig.vector.storeBatchSize`.
StoreAllChunks ==
    /\ wf.step = "files"
    /\ wf.pending = {}
    /\ wf.i >= Len(repo)
    /\ LET allChunks == wf.allChunks
       IN wf' = IF Len(allChunks) = 0
                THEN [wf EXCEPT !.step = "done", !.out = "no content"]
                ELSE [wf EXCEPT !.step = "createIndex", !.chunks = allChunks,
                                !.toolBatchSize = wf.storeBatchSize, !.i = 0]
    /\ UNCHANGED <<store, documents, knowledgeBase, isInitialized, repo, result, calls,
                   passVars, scoreVars>>

\* vectorStoreTool.execute called on its own, with the batchSize of the
\* caller (0: none given, or 0 given).
CallVectorStoreTool ==
    /\ wf.step = "idle"
    /\ \E batchSize \in {0} \cup BatchSizes, storeBatchSize \in BatchSizes,
          embeddingBatchSize \in BatchSizes :
          wf' = [wf EXCEPT !.step = "createIndex",
                           !.chunks = allChunksFrom(repo, {}, 1),
                           !.toolBatchSize = batchSize,
                           !.storeBatchSize = storeBatchSize,
                           !.embeddingBatchSize = embeddingBatchSize]
    /\ UNCHANGED <<store, documents, knowledgeBase, isInitialized, repo, result, calls,
                   passVars, scoreVars>>

\* `await vectorStore.createIndex(...)`
CreateIndex ==
    /\ wf.step = "createIndex"
    /\ \E ok \in BOOLEAN :
          /\ calls' = calls \o <<completed("createIndex", 0, ok)>>
          /\ wf' = IF ~ok THEN [wf EXCEPT !.step = "done", !.out = "store failed"]
                   ELSE [wf EXCEPT !.step = IF Len(wf.chunks) = 0 THEN "upsert" ELSE "embed",
                                   !.i = 0]
    /\ UNCHANGED <<store, documents, knowledgeBase, isInitialized, repo, result,
                   passVars, scoreVars>>

\* One turn of the embedding loop up to `await embedMany`.
EmbedBatch ==
    /\ wf.step = "embed"
    /\ wf.i < Len(wf.chunks)
    /\ calls' = calls \o <<issued("embedMany",
                                  Min(effectiveBatchSize(wf), Len(wf.chunks) - wf.i))>>
    /\ wf' = [wf EXCEPT !.step = "embedding"]
    /\ UNCHANGED <<store, documents, knowledgeBase, isInitialized, repo, result,
                   passVars, scoreVars>>

\* The answer of embedMany: it throws, or the embeddings are kept and the
\* loop waits when there is a next batch.
EmbedResponse ==
    /\ wf.step = "embedding"
    /\ \E ok \in BOOLEAN :
          LET n == Min(effectiveBatchSize(wf), Len(wf.chunks) - wf.i)
              next == wf.i + effectiveBatchSize(wf)
          IN /\ calls' = calls \o <<completed("embedMany", n, ok)>>
             /\ wf' = IF ~ok THEN [wf EXCEPT !.step = "done", !.out = "store failed"]
                      ELSE [wf EXCEPT !.allEmbeddings =
                                          @ \o [k \in 1..n |->
                                                  embeddingOf(wf.chunks[wf.i + k].content)],
                                      !.i = IF next < Len(wf.chunks) THEN next ELSE 0,
                                      !.step = IF delayDue(next, Len(wf.chunks)) THEN "delay"
                                               ELSE IF next < Len(wf.chunks) THEN "embed"
                                               ELSE "upsert"]
    /\ UNCHANGED <<store, documents, knowledgeBase, isInitialized, repo, result,
                   passVars, scoreVars>>

\* `await new Promise(resolve => setTimeout(resolve, apiDelay))` is over.
DelayElapsed ==
    /\ wf.step = "delay"
    /\ calls' = calls \o <<completed("setTimeout", 0, TRUE)>>
    /\ wf' = [wf EXCEPT !.step = "embed"]
    /\ UNCHANGED <<store, documents, knowledgeBase, isInitialized, repo, result,
                   passVars, scoreVars>>

\* One turn of the store loop: the upsert of the next storeBatchSize chunks.
UpsertBatch ==
    /\ wf.step = "upsert"
    /\ wf.i < Len(wf.chunks)
    /\ \E ok \in BOOLEAN :
          LET last == Min(wf.i + wf.storeBatchSize, Len(wf.chunks))
          IN /\ calls' = calls \o <<completed("upsert", last - wf.i, ok)>>
             /\ store' = IF ok
                         THEN LET vectors == embeddingBatch(wf.allEmbeddings, wf.i, last)
                              IN store \o [k \in 1..Len(vectors) |->
                                             wf.chunks[wf.i + k] @@ [vector |-> vectors[k]]]
                         ELSE store
             /\ wf' = IF ok THEN [wf EXCEPT !.i = wf.i + wf.storeBatchSize]
                      ELSE [wf EXCEPT !.step = "done", !.out = "store failed"]
    /\ UNCHANGED <<documents, knowledgeBase, isInitialized, repo, result,
                   passVars, scoreVars>>

\* After the store loop: `return {success: true, ..., storedCount: chunks.length}`.
ReturnStored ==
    /\ wf.step = "upsert"
    /\ wf.i >= Len(wf.chunks)
    /\ wf' = [wf EXCEPT !.step = "done", !.out = "stored"]
    /\ UNCHANGED <<store, documents, knowledgeBase, isInitialized, repo, result, calls,
                   passVars, scoreVars>>

\* The next run of the workflow, with forceReload = false: its
\* check-initialization probes the index with one search of the query.
CheckAfterRun ==
    /\ wf.step = "done"
    /\ \E ok \in BOOLEAN, hits \in Hits(store, 1) :
          LET testResult == vectorSearchTool(store, hits, ok)
          IN /\ calls' = calls \o <<completed("vectorSearchTool", testResult.count, ok)>>
             /\ wf' = [wf EXCEPT !.step = "checked",
                                 !.needsInitialization =
                                     ~testResult.success \/ testResult.count = 0]
    /\ UNCHANGED <<store, documents, knowledgeBase, isInitialized, repo, result,
                   passVars, scoreVars>>

NextBatch ==
    \/ StartFileLoop
    \/ ProcessFileBatch
    \/ FileProcessed
    \/ StoreAllChunks
    \/ CallVectorStoreTool
    \/ CreateIndex
    \/ EmbedBatch
    \/ EmbedResponse
    \/ DelayElapsed
    \/ UpsertBatch
    \/ ReturnStored
    \/ CheckAfterRun

SpecBatch == InitBatch /\ [][NextBatch]_vars

-----------------------------------------------------------------------------
(* GitHubRAGSearchService between its awaits: init(forceReload = true) and *)
(* a search on one instance, each running from one await to the next.      *)
(* `wf` holds where each call stands: `forced` the forced init, `search`   *)
(* the search, `nested` the initialization the search may call.            *)

\* Mutant: `this.knowledgeBase = []` ahead of the awaits.
heldWhileLoadingCleared(held) == <<>>

\* What the instance holds while initializeKnowledgeBase awaits: nothing is
\* assigned to knowledgeBase before the awaits have returned.
heldWhileLoading(held) == held

\* The generations an instance may hold before the calls: the chunks of a
\* repository as it was.
Generations == {chunksOfDocuments(files, 1) : files \in RepoLists}

InitInterleaved ==
    /\ repo \in RepoLists
    /\ \E initialized \in BOOLEAN :
          /\ isInitialized = initialized
          /\ knowledgeBase \in (IF initialized THEN Generations ELSE {<<>>})
          /\ wf = [forced |-> "idle", search |-> "idle", nested |-> "idle",
                   second |-> "idle", nested2 |-> "idle",
                   previous |-> knowledgeBase, wasInitialized |-> initialized,
                   scored |-> [done |-> FALSE, held |-> <<>>],
                   scored2 |-> [done |-> FALSE, held |-> <<>>]]
    /\ calls = <<>>
    /\ result = NoResult
    /\ documents = <<>>
    /\ store = <<>>
    /\ lines = <<>>
    /\ pos = 1
    /\ currentChunk = ""
    /\ currentTitle = ""
    /\ currentSection = ""
    /\ chunkLineCount = 0
    /\ chunks = <<>>
    /\ lastStep = NoStep
    /\ scoreDoc = NoChunk
    /\ scoreQuery = ""
    /\ scoreOut = NoScore

\* initializeKnowledgeBase(true) up to `await this.getMarkdownFiles("", true)`.
ForcedInitStarts ==
    /\ wf.forced = "idle"
    /\ wf' = [wf EXCEPT !.forced = "listing"]
    /\ knowledgeBase' = heldWhileLoading(knowledgeBase)
    /\ UNCHANGED <<documents, isInitialized, repo, result, calls, store,
                   passVars, scoreVars>>

\* The listing of the forced init is answered: the call throws, or every
\* getFileContent is issued and the call awaits Promise.all.
ForcedListingAnswered ==
    /\ wf.forced = "listing"
    /\ \E ok \in BOOLEAN :
          /\ calls' = calls \o <<[call |-> "getMarkdownFiles", path |-> "", ok |-> ok]>>
          /\ wf' = [wf EXCEPT !.forced = IF ok THEN "fetching" ELSE "threw"]
    /\ UNCHANGED <<documents, knowledgeBase, isInitialized, repo, result, store,
                   passVars, scoreVars>>

\* Promise.all of the forced init settles: a fetch threw and so does the call,
\* or the part without an await runs: `this.knowledgeBase = []`, the loop
\* that fills it, `this.isInitialized = true`.
ForcedFilesAnswered ==
    /\ wf.forced = "fetching"
    /\ \E unreadable \in SUBSET (1..Len(repo)) :
          LET answer == [listingOk |-> TRUE, unreadable |-> unreadable]
              requests == requestsOf(repo, answer)
          IN /\ calls' = calls \o SubSeq(requests, 2, Len(requests))
             /\ IF unreadable # {}
                THEN /\ wf' = [wf EXCEPT !.forced = "threw"]
                     /\ UNCHANGED <<knowledgeBase, isInitialized>>
                ELSE /\ wf' = [wf EXCEPT !.forced = "done"]
                     /\ knowledgeBase' = chunksOfDocuments(repo, 1)
                     /\ isInitialized' = TRUE
    /\ UNCHANGED <<documents, repo, result, store, passVars, scoreVars>>

\* searchKnowledgeBase(query, maxResults) up to its first await: on an
\* initialized instance that holds chunks there is none and the search
\* scores right away; otherwise it calls initializeKnowledgeBase(), which
\* returns "cached" on an initialized instance and lists the files on
\* another, and awaits it.
SearchStarts ==
    /\ wf.search = "idle"
    /\ IF isInitialized /\ Len(knowledgeBase) # 0
       THEN wf' = [wf EXCEPT !.search = "done",
                             !.scored = [done |-> TRUE, held |-> knowledgeBase]]
       ELSE wf' = [wf EXCEPT !.search = "awaiting",
                             !.nested = IF isInitialized THEN "done" ELSE "listing"]
    /\ UNCHANGED <<documents, knowledgeBase, isInitialized, repo, result, calls, store,
                   passVars, scoreVars>>

\* The listing of the search's own init is answered: the call throws, or every
\* getFileContent is issued and the call awaits Promise.all.
NestedListingAnswered ==
    /\ wf.nested = "listing"
    /\ \E ok \in BOOLEAN :
          /\ calls' = calls \o <<[call |-> "getMarkdownFiles", path |-> "", ok |-> ok]>>
          /\ wf' = [wf EXCEPT !.nested = IF ok THEN "fetching" ELSE "threw"]
    /\ UNCHANGED <<documents, knowledgeBase, isInitialized, repo, result, store,
                   passVars, scoreVars>>

\* Promise.all of the search's own init settles: a fetch threw and so does the call,
\* or the part without an await runs: `this.knowledgeBase = []`, the loop
\* that fills it, `this.isInitialized = true`.
NestedFilesAnswered ==
    /\ wf.nested = "fetching"
    /\ \E unreadable \in SUBSET (1..Len(repo)) :
          LET answer == [listingOk |-> TRUE, unreadable |-> unreadable]
              requests == requestsOf(repo, answer)
          IN /\ calls' = calls \o SubSeq(requests, 2, Len(requests))
             /\ IF unreadable # {}
                THEN /\ wf' = [wf EXCEPT !.nested = "threw"]
                     /\ UNCHANGED <<knowledgeBase, isInitialized>>
                ELSE /\ wf' = [wf EXCEPT !.nested = "done"]
                     /\ knowledgeBase' = chunksOfDocuments(repo, 1)
                     /\ isInitialized' = TRUE
    /\ UNCHANGED <<documents, repo, result, store, passVars, scoreVars>>

\* The search resumes after `await this.initializeKnowledgeBase()`: the
\* rejection goes on to the caller, or the search scores what is held now.
SearchResumes ==
    /\ wf.search = "awaiting"
    /\ wf.nested \in {"done", "threw"}
    /\ wf' = IF wf.nested = "threw"
             THEN [wf EXCEPT !.search = "threw"]
             ELSE [wf EXCEPT !.search = "done",
                             !.scored = [done |-> TRUE, held |-> knowledgeBase]]
    /\ UNCHANGED <<documents, knowledgeBase, isInitialized, repo, result, calls, store,
                   passVars, scoreVars>>

NextInterleaved ==
    \/ ForcedInitStarts
    \/ ForcedListingAnswered
    \/ ForcedFilesAnswered
    \/ SearchStarts
    \/ NestedListingAnswered
    \/ NestedFilesAnswered
    \/ SearchResumes

SpecInterleaved == InitInterleaved /\ [][NextInterleaved]_vars

-----------------------------------------------------------------------------
(* Two searches on one instance of GitHubRAGSearchService that is not      *)
(* initialized, each running from one await to the next.                   *)

InitSearches ==
    /\ repo \in RepoLists
    /\ isInitialized = FALSE
    /\ knowledgeBase = <<>>
    /\ wf = [forced |-> "idle", search |-> "idle", nested |-> "idle",
             second |-> "idle", nested2 |-> "idle",
             previous |-> <<>>, wasInitialized |-> FALSE,
             scored |-> [done |-> FALSE, held |-> <<>>],
             scored2 |-> [done |-> FALSE, held |-> <<>>]]
    /\ calls = <<>>
    /\ result = NoResult
    /\ documents = <<>>
    /\ store = <<>>
    /\ lines = <<>>
    /\ pos = 1
    /\ currentChunk = ""
    /\ currentTitle = ""
    /\ currentSection = ""
    /\ chunkLineCount = 0
    /\ chunks = <<>>
    /\ lastStep = NoStep
    /\ scoreDoc = NoChunk
    /\ scoreQuery = ""
    /\ scoreOut = NoScore

\* A second searchKnowledgeBase(query, maxResults) up to its first await: on an
\* initialized instance that holds chunks there is none and the search
\* scores right away; otherwise it calls initializeKnowledgeBase(), which
\* returns "cached" on an initialized instance and lists the files on
\* another, and awaits it.
SecondSearchStarts ==
    /\ wf.second = "idle"
    /\ IF isInitialized /\ Len(knowledgeBase) # 0
       THEN wf' = [wf EXCEPT !.second = "done",
                             !.scored2 = [done |-> TRUE, held |-> knowledgeBase]]
       ELSE wf' = [wf EXCEPT !.second = "awaiting",
                             !.nested2 = IF isInitialized THEN "done" ELSE "listing"]
    /\ UNCHANGED <<documents, knowledgeBase, isInitialized, repo, result, calls, store,
                   passVars, scoreVars>>

\* The listing of the second search's init is answered: the call throws, or every
\* getFileContent is issued and the call awaits Promise.all.
SecondListingAnswered ==
    /\ wf.nested2 = "listing"
    /\ \E ok \in BOOLEAN :
          /\ calls' = calls \o <<[call |-> "getMarkdownFiles", path |-> "", ok |-> ok]>>
          /\ wf' = [wf EXCEPT !.nested2 = IF ok THEN "fetching" ELSE "threw"]
    /\ UNCHANGED <<documents, knowledgeBase, isInitialized, repo, result, store,
                   passVars, scoreVars>>

\* Promise.all of the second search's init settles: a fetch threw and so does the call,
\* or the part without an await runs: `this.knowledgeBase = []`, the loop
\* that fills it, `this.isInitialized = true`.
SecondFilesAnswered ==
    /\ wf.nested2 = "fetching"
    /\ \E unreadable \in SUBSET (1..Len(repo)) :
          LET answer == [listingOk |-> TRUE, unreadable |-> unreadable]
              requests == requestsOf(repo, answer)
          IN /\ calls' = calls \o SubSeq(requests, 2, Len(requests))
             /\ IF unreadable # {}
                THEN /\ wf' = [wf EXCEPT !.nested2 = "threw"]
                     /\ UNCHANGED <<knowledgeBase, isInitialized>>
                ELSE /\ wf' = [wf EXCEPT !.nested2 = "done"]
                     /\ knowledgeBase' = chunksOfDocuments(repo, 1)
                     /\ isInitialized' = TRUE
    /\ UNCHANGED <<documents, repo, result, store, passVars, scoreVars>>

\* The second search resumes after `await this.initializeKnowledgeBase()`: the
\* rejection goes on to the caller, or the search scores what is held now.
SecondSearchResumes ==
    /\ wf.second = "awaiting"
    /\ wf.nested2 \in {"done", "threw"}
    /\ wf' = IF wf.nested2 = "threw"
             THEN [wf EXCEPT !.second = "threw"]
             ELSE [wf EXCEPT !.second = "done",
                             !.scored2 = [done |-> TRUE, held |-> knowledgeBase]]
    /\ UNCHANGED <<documents, knowledgeBase, isInitialized, repo, result, calls, store,
                   passVars, scoreVars>>

NextSearches ==
    \/ SearchStarts
    \/ NestedListingAnswered
    \/ NestedFilesAnswered
    \/ SearchResumes
    \/ SecondSearchStarts
    \/ SecondListingAnswered
    \/ SecondFilesAnswered
    \/ SecondSearchResumes

SpecSearches == InitSearches /\ [][NextSearches]_vars

-----------------------------------------------------------------------------
(* Properties of the chunking pass.                                        *)

\* The number of lines the accumulator holds, read off the accumulator.
heldLines(acc) == Len(splitOn(acc, "\n")) - 1

\* The number of lines of a chunk's content.
contentLines(chunk) == Len(splitOn(chunk.content, "\n"))

PrecedenceLines == splitOn(shapeText(PrecedenceShape), "\n")
HeadinglessLines == splitOn(shapeText(HeadinglessShape), "\n")

\* C4: a level-2 heading line emits the accumulator and starts a new one
\* exactly when the accumulator is non-empty (once trimmed) and holds more
\* than 5 lines; in the document "level-1 heading, 3 body lines, level-2
\* heading, 2 body lines, level-2 heading, 10 body lines" the first level-2
\* heading (line 5) does not split and the second (line 8) does.
C4_Level2SplitRule ==
    [][(pos <= Len(lines) /\ isH2(lines[pos]) /\ pos' = pos + 1) =>
          LET line == lines[pos]
              mustSplit == trim(currentChunk) # "" /\ heldLines(currentChunk) > 5
          IN /\ mustSplit =>
                   /\ Len(chunks') = Len(chunks) + 1
                   /\ SubSeq(chunks', 1, Len(chunks)) = chunks
                   /\ chunks'[Len(chunks')].content = trim(currentChunk)
                   /\ currentChunk' = line \o "\n"
             /\ ~mustSplit =>
                   /\ chunks' = chunks
                   /\ currentChunk' = currentChunk \o line \o "\n"
             /\ (lines = PrecedenceLines /\ pos = 5) => chunks' = chunks
             /\ (lines = PrecedenceLines /\ pos = 8) => Len(chunks') = Len(chunks) + 1
      ]_vars

\* C4 witness: the pass over the precedence document has just split at the
\* second level-2 heading, having kept the first one in the first chunk.
C4_Witness ==
    /\ lines = PrecedenceLines
    /\ pos = 9
    /\ lastStep.kind = "h2"
    /\ Len(chunks) = 1
    /\ includes(chunks[1].content, "## Topic 2")
    /\ currentChunk = "## Topic 3\n"

\* C5: a line that is no heading emits the accumulator exactly when it is
\* the 50th line the accumulator holds, and leaves title and section as
\* they were; the 120-line document without headings returns exactly 3
\* chunks, of 50, 50 and 20 lines.
C5_SizeCeiling ==
    [][/\ (pos <= Len(lines) /\ ~isH1(lines[pos]) /\ ~isH2(lines[pos]) /\ pos' = pos + 1) =>
             LET acc == currentChunk \o lines[pos] \o "\n"
             IN /\ currentTitle' = currentTitle
                /\ currentSection' = currentSection
                /\ IF heldLines(acc) >= 50
                   THEN /\ Len(chunks') = Len(chunks) + 1
                        /\ chunks'[Len(chunks')].content = trim(acc)
                        /\ currentChunk' = ""
                   ELSE /\ chunks' = chunks
                        /\ currentChunk' = acc
       /\ (lines = HeadinglessLines /\ lastStep'.kind = "return") =>
             /\ Len(lastStep'.returned) = 3
             /\ contentLines(lastStep'.returned[1]) = 50
             /\ contentLines(lastStep'.returned[2]) = 50
             /\ contentLines(lastStep'.returned[3]) = 20
             /\ \A i \in 1..3 : /\ lastStep'.returned[i].title = PassFile
                                /\ lastStep'.returned[i].section = ""
      ]_vars

\* C5 witness: the pass over the 120-line document without headings has
\* returned its three chunks.
C5_Witness ==
    /\ lines = HeadinglessLines
    /\ Len(lines) = 121
    /\ lastStep.kind = "return"
    /\ Len(lastStep.returned) = 3

-----------------------------------------------------------------------------
(* Properties of the scorer.                                               *)

\* The number of places where `phrase` stands in `s`.
occurrences(s, phrase) ==
    Cardinality({i \in 1..(Len(s) - Len(phrase) + 1) :
                    SubSeq(s, i, i + Len(phrase) - 1) = phrase})

\* The case a chunk of the end-to-end scenario is in: title "Intro",
\* section "Setup", "setup" once in the content, in the "## Setup" line.
SetupOnceInHeading ==
    /\ scoreQuery = "setup"
    /\ scoreDoc.title = "Intro"
    /\ scoreDoc.section = "Setup"
    /\ occurrences(toLowerCase(scoreDoc.content), "setup") = 1
    /\ includes(scoreDoc.content, "## Setup")

\* C3 as stated: the score of that chunk for the query "setup" is exactly 6.
C3_ScoreIsSix ==
    (scoreOut.done /\ SetupOnceInHeading) =>
        (~scoreOut.outcome.threw /\ scoreOut.outcome.score = 6)

\* C3 amended: the score of that chunk for the query "setup" is exactly 9:
\* 5 for the phrase in the section, 1 for the phrase in the content, and the
\* presence bonus of the word "setup", 2 for the section and 1 for the
\* content.
C3_ScoreIsNine ==
    (scoreOut.done /\ SetupOnceInHeading) =>
        /\ ~scoreOut.outcome.threw
        /\ scoreOut.outcome.score = 9
        /\ scoreOut.outcome.parts = [titleMatches |-> 0, sectionMatches |-> 1,
                             contentMatches |-> 1, wordBonus |-> 3]

\* C3 witness: the scenario's chunk has been scored for "setup".
C3_Witness ==
    /\ scoreOut.done
    /\ SetupOnceInHeading
    /\ scoreDoc.content = IntroChunkText
    /\ scoreOut.outcome.score = 9

\* C6: for every query the scorer is called with, characters special to
\* regular expressions included, the call does not throw and each phrase
\* count is the number of literal occurrences of the query in the field.
C6_QueryTakenLiterally ==
    scoreOut.done =>
        /\ ~scoreOut.outcome.threw
        /\ scoreOut.outcome.parts.titleMatches =
               occurrences(toLowerCase(scoreDoc.title), toLowerCase(scoreQuery))
        /\ scoreOut.outcome.parts.sectionMatches =
               occurrences(toLowerCase(scoreDoc.section), toLowerCase(scoreQuery))
        /\ scoreOut.outcome.parts.contentMatches =
               occurrences(toLowerCase(scoreDoc.content), toLowerCase(scoreQuery))

-----------------------------------------------------------------------------
(* Properties of the in-memory collections.                                *)

\* C1: after any sequence of load and init operations, every chunk held in
\* MarkdownReaderService.documents and in GitHubRAGSearchService.knowledgeBase
\* has a trimmed content of more than 50 characters.
C1_HeldChunksAreLong ==
    /\ \A i \in 1..Len(documents) : Len(trim(documents[i].content)) > 50
    /\ \A i \in 1..Len(knowledgeBase) : Len(trim(knowledgeBase[i].content)) > 50

\* C1 witness: both collections hold chunks, after a load and an init whose
\* inputs also had fragments of 50 characters and fewer.
C1_Witness ==
    /\ result.op = "load"
    /\ result.out.success
    /\ result.args = <<EdgeFile, ManualFile>>
    /\ Len(documents) = 2
    /\ repo = <<GuideFile, IntroFile>>
    /\ Len(knowledgeBase) = 1

\* The load of the one document of the end-to-end scenario has returned.
IntroLoaded ==
    /\ result.op = "load"
    /\ result.out.success
    /\ result.args = <<IntroFile>>

\* C2 as stated: loading the four-line document "# Intro / Some text. /
\* ## Setup / Short." leaves exactly 1 chunk in the knowledge base, with title
\* "Intro", section "Setup" and both heading lines in its content.
C2_IntroYieldsOneChunk ==
    IntroLoaded =>
        /\ Len(documents) = 1
        /\ documents[1].title = "Intro"
        /\ documents[1].section = "Setup"
        /\ includes(documents[1].content, "# Intro")
        /\ includes(documents[1].content, "## Setup")

\* C2 amended: the pass over that document pushes exactly 1 chunk, with title
\* "Intro", section "Setup" and both heading lines in its content, but that
\* chunk is 34 characters long and the length filter drops it: the load
\* leaves 0 chunks in the knowledge base and reports chunksCount 0.
C2_IntroChunkIsFiltered ==
    IntroLoaded =>
        LET pushed == pushedChunks(IntroFile.content, IntroFile.path, IntroFile.name)
        IN /\ Len(pushed) = 1
           /\ pushed[1].title = "Intro"
           /\ pushed[1].section = "Setup"
           /\ includes(pushed[1].content, "# Intro")
           /\ includes(pushed[1].content, "## Setup")
           /\ Len(pushed[1].content) = 34
           /\ documents = <<>>
           /\ result.out.documentsCount = 1
           /\ result.out.chunksCount = 0

\* C2 witness: the document has been loaded and nothing is held.
C2_Witness ==
    /\ IntroLoaded
    /\ documents = <<>>
    /\ result.out.chunksCount = 0

\* A search with a query has returned.
Searched == result.op = "search" /\ "maxResults" \in DOMAIN result.args

\* C7: a search whose query is white space only gives every held chunk the
\* score 0 and returns no result.
C7_BlankQueryFindsNothing ==
    (Searched /\ trim(result.args.query) = "") =>
        /\ ~result.out.threw
        /\ \A i \in 1..Len(documents) : scoreOf[documents[i], result.args.query].score = 0
        /\ result.out.count = 0
        /\ result.out.results = <<>>

\* The initialization the last operation ran asked the repository.
Asked == Len(calls) > 0

\* The files whose content the last initialization fetched, in listing order.
fetchedFiles ==
    LET index == [i \in 1..Len(repo) |-> i]
        ok(i) == calls[i + 1].ok
        kept == SelectSeq(index, ok)
    IN [k \in 1..Len(kept) |-> repo[kept[k]]]

\* C8: a search on an index that is not initialized runs the implicit load,
\* and when that load produces zero chunks the search returns the "cannot
\* initialize" failure, never a success with an empty result list.
C8_EmptyLoadFailsSearch ==
    (Searched /\ Asked /\ ~result.out.threw /\ Len(knowledgeBase) = 0) =>
        /\ ~result.out.success
        /\ result.out.error = "cannot initialize the knowledge base"

\* C10: an initialization in which the fetch of some but not all files fails
\* does not fail as a whole: it holds the chunks of every other file and
\* reports their number, which is not zero when those files have chunks.
C10_PartialFetchFailureIsTolerated ==
    (/\ result.op = "init"
     /\ Len(calls) = Len(repo) + 1
     /\ \E i \in 1..Len(repo) : ~calls[i + 1].ok
     /\ \E i \in 1..Len(repo) : calls[i + 1].ok) =>
        /\ ~result.out.threw
        /\ result.out.success
        /\ knowledgeBase = chunksOfDocuments(fetchedFiles, 1)
        /\ result.out.chunksCount = Len(knowledgeBase)

-----------------------------------------------------------------------------
(* Properties of the retrieval workflow.                                   *)

\* The requests that list, fetch, chunk, embed or store.
LoadingCalls ==
    {"githubSearchTool", "githubContentTool", "documentProcessTool",
     "createIndex", "embedMany", "upsert"}

\* C9: a run with forceReload=false on an index that already holds rows
\* issues no listing, no fetch, no chunking, no embedding and no upsert:
\* only the search and the synthesis run.
C9_RerunLoadsNothing ==
    (wf.step \in {"search", "done"} /\ ~wf.input.forceReload /\ wf.rowsAtStart > 0) =>
        \A k \in 1..Len(wf.trace) : wf.trace[k].call \notin LoadingCalls

-----------------------------------------------------------------------------
(* Replacement of the held collection by load and by init.                 *)

\* `held` is the chunks of the documents of `docs` and nothing else, document
\* after document and, within a document, chunk after chunk (place <<k, i>>
\* is chunk i of document k).
holdsExactly(held, docs) ==
    LET chunkPlaces ==
            UNION {{<<k, i>> : i \in 1..Len(chunksOfFile[docs[k]])} :
                      k \in 1..Len(docs)}
    IN /\ Len(held) = Cardinality(chunkPlaces)
       /\ \A p \in chunkPlaces :
             held[Cardinality({q \in chunkPlaces : q[1] < p[1]}) + p[2]]
                 = chunksOfFile[docs[p[1]]][p[2]]

\* C11: a load that completes leaves exactly the chunks of its documents in
\* the collection, in document order, whatever the collection held before,
\* and so does an initialization that fetched the repository; a load that
\* follows a load of the same documents leaves the collection as it was.
C11_LoadReplaces ==
    [][/\ (result'.op = "load" /\ result'.out.success)
            => /\ holdsExactly(documents', result'.args)
               /\ result'.out.chunksCount = Len(documents')
       /\ (result'.op = "init" /\ ~result'.out.threw /\ ~result'.out.cached)
            => holdsExactly(knowledgeBase', repo)
       /\ (/\ result.op = "load" /\ result.out.success
           /\ result'.op = "load" /\ result'.out.success
           /\ result'.args = result.args)
            => documents' = documents]_vars

\* A load of two documents has replaced a collection; the manual's two chunks
\* come before the guide's one.
C11_Witness ==
    /\ result.op = "load"
    /\ result.out.success
    /\ result.args = <<ManualFile, GuideFile>>
    /\ Len(documents) = 3
    /\ documents[3] = chunksOfFile[GuideFile][1]

-----------------------------------------------------------------------------
(* Ranking and selection of search results.                                *)

\* C13: a search that returns gives at most maxResults chunks, in order of
\* non-increasing score, chunks of equal score in insertion order.
\* (insertionPlaces: the places of the collection the results can have come
\* from, no place used twice, the earlier of two results of equal score
\* inserted earlier.)
C13_AtMostMaxResultsRanked ==
    LET found == result.out.results
        query == result.args.query
        resultScore(i) == scoreOf[withoutScore(found[i]), query].score
        insertionPlaces ==
            {at \in [1..Len(found) -> 1..Len(documents)] :
                /\ \A i \in 1..Len(found) : documents[at[i]] = withoutScore(found[i])
                /\ \A i, j \in 1..Len(found) :
                      i < j => /\ at[i] # at[j]
                               /\ resultScore(i) = resultScore(j) => at[i] < at[j]}
    IN (Searched /\ ~result.out.threw /\ result.out.success)
          => /\ result.out.count <= result.args.maxResults
             /\ Len(found) = result.out.count
             /\ \A i, j \in 1..Len(found) : i < j => resultScore(i) >= resultScore(j)
             /\ insertionPlaces # {}

\* C14: every score that is computed is non-negative, and every chunk a
\* search returns has a strictly positive score for the query of the search.
C14_OnlyPositiveScoresReturned ==
    /\ \A i \in 1..Len(documents), query \in ServiceQueries :
          ~scoreOf[documents[i], query].threw => scoreOf[documents[i], query].score >= 0
    /\ (Searched /\ ~result.out.threw /\ result.out.success)
          => \A i \in 1..Len(result.out.results) :
                scoreOf[result.out.results[i], result.args.query].score > 0

\* A search over three chunks has returned the two that match and left out
\* the one of score 0.
C14_Witness ==
    /\ Searched
    /\ ~result.out.threw
    /\ result.out.success
    /\ result.args.maxResults = readerDefaultMaxResults
    /\ result.out.count = 2
    /\ \E i \in 1..Len(documents) : scoreOf[documents[i], result.args.query].score = 0

-----------------------------------------------------------------------------
(* The weight of a title match.                                            *)

\* C15: a scored chunk that has the query phrase in its title and in its
\* content scores strictly higher than every chunk that differs from it in
\* the title only and has the phrase in its content only.
C15_TitleMatchScoresHigher ==
    LET queryLower == toLowerCase(scoreQuery)
        has(field) == includes(toLowerCase(field), queryLower)
        others == {doc \in ScoreDocs :
                      /\ doc.content = scoreDoc.content
                      /\ doc.section = scoreDoc.section
                      /\ ~has(doc.title)}
    IN (/\ scoreOut.done
        /\ has(scoreDoc.title)
        /\ has(scoreDoc.content)
        /\ ~has(scoreDoc.section))
          => \A other \in others :
                /\ ~scoreOut.outcome.threw
                /\ scoreOut.outcome.score
                     > calculateRelevanceScore(other, queryLower).score

-----------------------------------------------------------------------------
(* github-rag-workflow: when the initialization stage runs, and what a     *)
(* failure of the agent leaves of the result.                              *)

\* C18: once check-initialization and initialize-vector-store are over, the
\* stage (repository listing, fetch, chunking, embedding, upsert) has been
\* entered exactly when forceReload was requested or the probe search failed
\* or found no row; with forceReload it was entered without a probe,
\* whatever the index held; when it was not entered, nothing but the probe
\* was requested before the search and the index is as it was.
C18_StageRunsWhenNeeded ==
    wf.step \in {"search", "done"}
      => LET requests == wf.trace
             stageRan == \E k \in 1..Len(requests) : requests[k].call = "githubSearchTool"
             probed == Len(requests) > 0 /\ requests[1].call = "vectorSearchTool"
             stageCalls == {"githubSearchTool", "githubContentTool", "documentProcessTool",
                            "createIndex", "embedMany", "upsert"}
             reported == IF wf.step = "done" THEN wf.output ELSE wf.init
         IN /\ wf.input.forceReload => (stageRan /\ ~probed)
            /\ ~wf.input.forceReload
                 => /\ probed
                    /\ stageRan <=> (~requests[1].ok \/ wf.rowsAtStart = 0)
            /\ ~stageRan
                 => /\ \A k \in 1..Len(requests) : requests[k].call \notin stageCalls
                    /\ wf.step = "search" => Len(requests) = 1
                    /\ Len(store) = wf.rowsAtStart
                    /\ ~reported.initialized
                    /\ reported.storedChunks = 0

\* A second run has probed an index that holds the rows of the first and has
\* gone straight to the search.
C18_Witness ==
    /\ wf.step = "search"
    /\ wf.runs = 2
    /\ wf.rowsAtStart > 0
    /\ ~wf.input.forceReload
    /\ Len(wf.trace) = 1
    /\ wf.trace[1].ok

\* C19: a run whose agent call threw is over like any other, with a result:
\* the answer is the error text, the sources are those of the search results
\* (each once, in the order of its first result), and the context holds the
\* results, source and content, in their order.
C19_AgentFailureKeepsSearchOutput ==
    (/\ wf.step = "done"
     /\ wf.trace[Len(wf.trace)].call = "agent.generate"
     /\ ~wf.trace[Len(wf.trace)].ok)
      => LET found == wf.found
             output == wf.output
             block(k) == "source: " \o found[k].source \o "\n" \o found[k].content
         IN /\ Len(found) > 0
            /\ output.answer = "generation failed"
            /\ \A k \in 1..Len(found) :
                  \E r \in 1..Len(output.sources) : output.sources[r] = found[k].source
            /\ \A r \in 1..Len(output.sources) :
                  \E k \in 1..Len(found) :
                      /\ output.sources[r] = found[k].source
                      /\ \A q \in 1..(r - 1) :
                            /\ output.sources[q] # output.sources[r]
                            /\ \E j \in 1..(k - 1) : found[j].source = output.sources[q]
            /\ startsWith(output.relevantContext, block(1))
            /\ \A k \in 1..Len(found) : includes(output.relevantContext, block(k))

\* The agent has failed on two results of one file.
C19_Witness ==
    /\ wf.step = "done"
    /\ wf.trace[Len(wf.trace)].call = "agent.generate"
    /\ ~wf.trace[Len(wf.trace)].ok
    /\ Len(wf.found) = 2
    /\ Len(wf.output.sources) = 1

-----------------------------------------------------------------------------
(* Properties of GitHubVectorRAGService.                                   *)

\* C12: after an init with forceReload=true that succeeded, the index holds
\* one row per chunk id: the chunks of the repository once, not twice.
C12_ForcedReloadReplaces ==
    (result.op = "init" /\ result.out.success /\ result.args.forceReload)
      => /\ \A i, j \in 1..Len(store) : store[i].id = store[j].id => i = j
         /\ Len(store) = result.out.chunksCount

\* C16: an init with forceReload=false on an index that holds rows and can
\* be reached returns a result marked cached, requests no listing, no file
\* content, no embedding and no upsert, and leaves the rows as they are.
C16_InitOnHeldDataIsCached ==
    [][(/\ result'.op = "init"
        /\ ~result'.args.forceReload
        /\ Len(store) > 0
        /\ calls'[1].ok)
         => /\ result'.out.success
            /\ result'.out.cached
            /\ store' = store
            /\ \A k \in 1..Len(calls') :
                  calls'[k].call \notin {"getMarkdownFiles", "getFileContent",
                                         "embedMany", "upsert"}]_vars

\* C17: clear leaves the rows of the index in place and the flag down; a
\* status that follows reports initialized = false; a search that follows
\* runs an initialization pass (which begins with createIndex) before it
\* answers.
C17_SearchAfterClearReloads ==
    [][/\ result'.op = "clear" => (store' = store /\ ~isInitialized')
       /\ (result.op = "clear" /\ result'.op = "status") => ~result'.out.initialized
       /\ (result.op = "clear" /\ result'.op = "search" /\ Len(calls') > 0)
            => \E k \in 1..Len(calls') : calls'[k].call = "createIndex"]_vars

-----------------------------------------------------------------------------
(* Calls without a required parameter.                                     *)

\* C20: a load without documents and a search without a query return a
\* failure result with an error message and do not throw; the collections,
\* the rows of the index and the initialized flag are as before, and no
\* request is issued (the requests on record are none, or those the
\* operation before left).
C20_MissingParameterChangesNothing ==
    [][((result'.op = "load" /\ "args" \notin DOMAIN result')
          \/ (result'.op = "search" /\ result'.args.query = ""))
         => /\ ~result'.out.success
            /\ "error" \in DOMAIN result'.out
            /\ "threw" \in DOMAIN result'.out => ~result'.out.threw
            /\ documents' = documents
            /\ knowledgeBase' = knowledgeBase
            /\ store' = store
            /\ isInitialized' = isInitialized
            /\ calls' \in {<<>>, calls}]_vars

\* A search without a query has failed on a service that is not initialized,
\* beside a loaded reader and an index that holds a row.
C20_Witness ==
    /\ result.op = "search"
    /\ result.args.query = ""
    /\ ~result.out.success
    /\ ~isInitialized
    /\ calls = <<>>
    /\ Len(documents) > 0
    /\ Len(store) > 0

-----------------------------------------------------------------------------
(* Headings in the chunks a pass pushes.                                   *)

\* C28 as stated: in every chunk the pass has pushed, a heading line (level
\* 1 or level 2) is the first line of the chunk.
C28_HeadingStartsChunk ==
    \A i \in 1..Len(chunks) :
        LET held == splitOn(chunks[i].content, "\n")
        IN \A k \in 1..Len(held) : (isH1(held[k]) \/ isH2(held[k])) => k = 1

\* C28 amended: in every chunk the pass has pushed, a level-1 heading line
\* is the first line; a level-2 heading line is the first line or was joined
\* to an accumulator of at most 5 lines, so it is one of the first 6 lines.
C28_Level1HeadingStartsChunk ==
    \A i \in 1..Len(chunks) :
        LET held == splitOn(chunks[i].content, "\n")
        IN \A k \in 1..Len(held) :
              /\ isH1(held[k]) => k = 1
              /\ isH2(held[k]) => k <= headingSplitLines + 1

\* A pass has pushed a chunk that opens with a level-1 heading and holds a
\* level-2 heading further down.
C28_Witness ==
    \E i \in 1..Len(chunks) :
        LET held == splitOn(chunks[i].content, "\n")
        IN /\ isH1(held[1])
           /\ \E k \in 2..Len(held) : isH2(held[k])


\* C29: a level-1 heading line pushes the accumulator, trimmed, exactly when
\* it does not trim to nothing, as a chunk with the title (the file name
\* when no level-1 heading was seen yet) and the section held before the
\* heading; the accumulator then holds just the heading line, title and
\* section are both the heading text and the line count is 1.
C29_Level1HeadingStep ==
    [][(pos <= Len(lines) /\ isH1(lines[pos]) /\ pos' = pos + 1) =>
          /\ IF trim(currentChunk) # ""
             THEN chunks' = Append(chunks,
                      [content |-> trim(currentChunk),
                       source |-> PassPath,
                       title |-> IF currentTitle # "" THEN currentTitle ELSE PassFile,
                       section |-> currentSection])
             ELSE chunks' = chunks
          /\ currentChunk' = lines[pos] \o "\n"
          /\ "# " \o currentTitle' = trim(lines[pos])
          /\ currentSection' = currentTitle'
          /\ chunkLineCount' = 1
      ]_vars

\* C29 witness: a second level-1 heading has just pushed the chunk of the
\* first one, under the first heading's title, and taken over the locals.
C29_Witness ==
    /\ lastStep.kind = "h1"
    /\ Len(chunks) >= 1
    /\ chunks[Len(chunks)].title = "Part 1"
    /\ currentTitle = "Part 2"
    /\ currentSection = "Part 2"
    /\ currentChunk = "# Part 2\n"
    /\ chunkLineCount = 1


\* C30: during a pass the title changes only in the step of a level-1
\* heading line and the section only in the step of a level-1 or level-2
\* heading line; the step of any other line, a size-forced split included,
\* leaves both as they were.
C30_TitleAndSectionChangeOnHeadings ==
    [][/\ currentTitle' # currentTitle =>
             (pos <= Len(lines) /\ isH1(lines[pos]) /\ pos' = pos + 1)
       /\ currentSection' # currentSection =>
             (pos <= Len(lines) /\ (isH1(lines[pos]) \/ isH2(lines[pos])) /\ pos' = pos + 1)
       /\ (lastStep'.kind = "text" /\ Len(chunks') > Len(chunks)) =>
             (currentTitle' = currentTitle /\ currentSection' = currentSection)
      ]_vars

\* C30 witness: under a level-1 heading a line that is no heading has just
\* forced a split by size, and title and section are still the heading's.
C30_Witness ==
    /\ lastStep.kind = "text"
    /\ currentChunk = ""
    /\ chunkLineCount = 0
    /\ Len(chunks) >= 1
    /\ currentTitle = "Part 1"
    /\ currentSection = "Part 1"

-----------------------------------------------------------------------------
(* The output of a workflow run.                                           *)

\* C26: the sources a finished run reports hold no source twice and are
\* exactly the sources of the search results its context was built from:
\* every reported source is the source of a result and the source of every
\* result is reported.
C26_SourcesAreTheResultSources ==
    wf.step = "done" =>
        LET sources == wf.output.sources
        IN /\ \A i, j \in 1..Len(sources) : sources[i] = sources[j] => i = j
           /\ {sources[i] : i \in 1..Len(sources)}
                 = {wf.found[k].source : k \in 1..Len(wf.found)}
           /\ \A i \in 1..Len(sources) :
                 includes(wf.output.relevantContext, "source: " \o sources[i])

\* C26 witness: a run has finished on two results of one file and reports
\* that file once.
C26_Witness ==
    /\ wf.step = "done"
    /\ Len(wf.found) = 2
    /\ wf.found[1].source = wf.found[2].source
    /\ wf.output.sources = <<wf.found[1].source>>


\* C21: a finished run whose search succeeded without a match reports the
\* "nothing found" output, and a finished run whose search collaborator
\* failed reports an output that differs from it.
C21_FailedSearchIsTold ==
    wf.step = "done" =>
        LET search == wf.trace[Len(wf.trace)]
            nothingFound == [answer |-> "nothing found", sources |-> <<>>,
                             relevantContext |-> ""]
            told == [f \in {"answer", "sources", "relevantContext"} |-> wf.output[f]]
        IN (search.call = "vectorSearchTool" /\ wf.found = <<>>) =>
              /\ search.ok => told = nothingFound
              /\ ~search.ok => told # nothingFound


\* C22: when the listing call of the initialization stage failed, the stage
\* does not report that the repository holds no markdown files.
C22_ListingFailureIsSurfaced ==
    (/\ wf.step = "search"
     /\ Len(wf.trace) > 0
     /\ wf.trace[Len(wf.trace)].call = "githubSearchTool"
     /\ ~wf.trace[Len(wf.trace)].ok)
        => wf.init.message # "no markdown files"


\* C25: when the stage that initializes lists a repository without a
\* markdown file, it reports that no markdown file was found, with nothing
\* processed and nothing stored; the listing is its only request (no file
\* fetch, no embedding request, no upsert) and the index is left as it was.
C25_EmptyListingStopsInitialization ==
    [][(wf.step = "initialize" /\ wf.needsInitialization /\ repo = <<>>) =>
          /\ wf'.step = "search"
          /\ wf'.init = [initialized |-> FALSE, processedFiles |-> 0,
                         storedChunks |-> 0, message |-> "no markdown files"]
          /\ Len(wf'.trace) = Len(wf.trace) + 1
          /\ SubSeq(wf'.trace, 1, Len(wf.trace)) = wf.trace
          /\ wf'.trace[Len(wf'.trace)].call = "githubSearchTool"
          /\ store' = store
      ]_vars

\* C25 witness: on a repository without files the listing succeeded and the
\* stage reported that there is no markdown file.
C25_Witness ==
    /\ repo = <<>>
    /\ wf.step = "search"
    /\ wf.needsInitialization
    /\ wf.trace[Len(wf.trace)] = [call |-> "githubSearchTool", ok |-> TRUE]
    /\ wf.init.message = "no markdown files"

-----------------------------------------------------------------------------
(* The batches of an initialization.                                       *)

\* C23: batches run strictly one after the other.  When the fetch of a file
\* is issued, the fetch of every file of an earlier file batch has
\* completed; between two embedding requests the answer to the first has
\* been received and, after it, the wait between batches has elapsed.
C23_BatchesInSequence ==
    /\ \A q \in 1..Len(calls) :
          (calls[q].call = "githubContentTool" /\ calls[q].ev = "issued") =>
             \A k \in 1..Len(repo) :
                ((k - 1) \div wf.batchSize < (calls[q].arg - 1) \div wf.batchSize) =>
                   \E p \in 1..(q - 1) :
                      /\ calls[p].call = "githubContentTool"
                      /\ calls[p].ev = "completed"
                      /\ calls[p].arg = k
    /\ \A p, q \in 1..Len(calls) :
          (/\ p < q
           /\ calls[p].call = "embedMany" /\ calls[p].ev = "issued"
           /\ calls[q].call = "embedMany" /\ calls[q].ev = "issued") =>
             \E r, d \in (p + 1)..(q - 1) :
                /\ r < d
                /\ calls[r] = [call |-> "embedMany", ev |-> "completed",
                               arg |-> calls[p].arg, ok |-> TRUE]
                /\ calls[d].call = "setTimeout"

\* C23 witness: an initialization has fetched its two files in two batches
\* and has issued its second embedding request.
C23_Witness ==
    /\ wf.batchSize = 1
    /\ \E q \in 1..Len(calls) : calls[q] = [call |-> "githubContentTool", ev |-> "issued",
                                            arg |-> 2, ok |-> TRUE]
    /\ Cardinality({q \in 1..Len(calls) :
                       calls[q].call = "embedMany" /\ calls[q].ev = "issued"}) = 2


\* C24: no upsert carries more chunks than the embedding requests of the
\* same call carry texts: every upsert is at most as large as the largest
\* embedding request issued before it.
C24_StoreBatchWithinEmbeddingBatch ==
    \A u \in 1..Len(calls) :
        calls[u].call = "upsert" =>
            \E e \in 1..(u - 1) :
                /\ calls[e].call = "embedMany"
                /\ calls[e].ev = "issued"
                /\ calls[u].arg <= calls[e].arg

-----------------------------------------------------------------------------
(* A search beside a forced init on one instance.                          *)

\* C27: whatever the interleaving of a search with a forced init, the
\* collection the search scores is a whole generation: the chunks held
\* before the calls or the chunks of the repository as the init loads them,
\* and on an instance that was never initialized the loaded ones.  It is
\* empty only when that generation is empty.
C27_SearchScoresWholeGeneration ==
    wf.scored.done =>
        LET loaded == chunksOfDocuments(repo, 1)
        IN /\ wf.scored.held \in {wf.previous, loaded}
           /\ ~wf.wasInitialized => wf.scored.held = loaded

\* C27 witness: while the forced init awaits its file contents, a search
\* has scored the previous generation, which differs from the one being
\* loaded; neither is empty.
C27_Witness ==
    /\ wf.forced = "fetching"
    /\ wf.scored.done
    /\ wf.scored.held = wf.previous
    /\ wf.previous # <<>>
    /\ chunksOfDocuments(repo, 1) # <<>>
    /\ wf.previous # chunksOfDocuments(repo, 1)

-----------------------------------------------------------------------------
(* The relevance score as a formula.                                       *)

\* C31: the call does not throw and the score is 10 times the occurrences
\* of the case-folded query in the title, plus 5 times those in the
\* section, plus those in the content, plus, for every query word longer
\* than 2 characters, 3 if the title holds it, 2 if the section holds it and
\* 1 if the content holds it.
C31_ScoreIsWeightedSum ==
    scoreOut.done =>
        LET queryLower == toLowerCase(scoreQuery)
            title == toLowerCase(scoreDoc.title)
            section == toLowerCase(scoreDoc.section)
            content == toLowerCase(scoreDoc.content)
            words == splitWhitespace(queryLower)
            present(field, k) == IF includes(field, words[k]) THEN 1 ELSE 0
            bonus[k \in 0..Len(words)] ==
                IF k = 0 THEN 0
                ELSE bonus[k - 1]
                       + (IF Len(words[k]) > 2
                          THEN 3 * present(title, k) + 2 * present(section, k)
                                 + present(content, k)
                          ELSE 0)
        IN /\ ~scoreOut.outcome.threw
           /\ scoreOut.outcome.score =
                  10 * occurrences(title, queryLower)
                    + 5 * occurrences(section, queryLower)
                    + occurrences(content, queryLower)
                    + bonus[Len(words)]

-----------------------------------------------------------------------------
(* The frame of a search.                                                  *)

\* C32: a search leaves the chunks the service holds as they were, the same
\* chunks in the same order and none with a score, and the chunks it
\* returns have the four fields of a chunk and no score.
C32_SearchKeepsHeldChunks ==
    [][result'.op = "search" =>
          /\ documents' = documents
          /\ \A i \in 1..Len(documents') :
                DOMAIN documents'[i] = {"content", "source", "title", "section"}
          /\ (~result'.out.threw /\ result'.out.success) =>
                \A i \in 1..Len(result'.out.results) :
                   DOMAIN result'.out.results[i] = {"content", "source", "title", "section"}
      ]_vars

\* C32 witness: a search over loaded chunks has returned one of them.
C32_Witness ==
    /\ Searched
    /\ ~result.out.threw
    /\ result.out.success
    /\ Len(documents) >= 2
    /\ result.out.count >= 1
    /\ \E i \in 1..Len(documents) : result.out.results[1] = documents[i]

-----------------------------------------------------------------------------
(* The size of chunks and of the accumulator.                              *)

\* C33 as stated: every chunk pushed holds at most 50 lines, the line count
\* is the number of lines the accumulator holds, and it lies between 0 and
\* 49 whenever the pass is about to read a line.
C33_CountBelowCeiling ==
    /\ \A i \in 1..Len(chunks) : contentLines(chunks[i]) <= 50
    /\ lastStep.kind # "return" =>
          /\ chunkLineCount = heldLines(currentChunk)
          /\ chunkLineCount \in 0..49

\* C33 amended: every chunk pushed holds at most 50 lines and the line count
\* is the number of lines the accumulator holds; it lies between 0 and 50
\* whenever the pass is about to read a line, and it is 50 only when the
\* accumulator is 49 blank lines followed by a level-2 heading line.
C33_CountWithinCeiling ==
    /\ \A i \in 1..Len(chunks) : contentLines(chunks[i]) <= 50
    /\ lastStep.kind # "return" =>
          /\ chunkLineCount = heldLines(currentChunk)
          /\ chunkLineCount \in 0..50
          /\ chunkLineCount = 50 =>
                LET held == splitOn(currentChunk, "\n")
                IN /\ \A k \in 1..49 : trim(held[k]) = ""
                   /\ isH2(held[50])

\* C33 witness: after 49 blank lines and a level-2 heading the pass is about
\* to read a line with the count at 50.
C33_Witness ==
    /\ lastStep.kind = "h2"
    /\ chunkLineCount = 50
    /\ heldLines(currentChunk) = 50
    /\ lines[pos] = "line 1"

-----------------------------------------------------------------------------
(* The lines of a document in its chunks.                                  *)

\* The lines of the chunks, one chunk after the other.
chunkLinesFrom[k \in Nat] ==
    IF k > Len(chunks) THEN <<>>
    ELSE splitOn(chunks[k].content, "\n") \o chunkLinesFrom[k + 1]

\* C34 as stated: when the pass returns, the non-blank lines of the chunks
\* pushed, chunk after chunk, are the non-blank lines of the document, in
\* the order of the document.
C34_ChunksReproduceLines ==
    lastStep.kind = "return" =>
        LET nonBlank(line) == trim(line) # ""
        IN SelectSeq(chunkLinesFrom[1], nonBlank) = SelectSeq(lines, nonBlank)

\* C34 amended: when the pass returns, the non-blank lines of the chunks
\* pushed, chunk after chunk, are the non-blank lines of the document, in
\* the order of the document, up to the white space at the two ends of a
\* line (a chunk is trimmed, so its first line loses its indentation and its
\* last line the white space it ends in).
C34_ChunksReproduceTrimmedLines ==
    lastStep.kind = "return" =>
        LET nonBlank(line) == trim(line) # ""
            held == SelectSeq(chunkLinesFrom[1], nonBlank)
            read == SelectSeq(lines, nonBlank)
        IN /\ Len(held) = Len(read)
           /\ \A k \in 1..Len(read) :
                 /\ trim(held[k]) = trim(read[k])
                 /\ includes(read[k], held[k])

\* C34 witness: a pass has returned for the document that opens with an
\* indented line, whose one chunk holds the three lines without the
\* indentation of the first and the closing spaces of the last.
C34_Witness ==
    /\ lastStep.kind = "return"
    /\ lines[1] = "    indented first line"
    /\ Len(chunks) = 1
    /\ chunks[1].content = "indented first line\nplain line\nlast line"

-----------------------------------------------------------------------------
(* What a call of the embed-and-store stage has stored.                    *)

\* C35: when the stage returns its success, the index holds one row per
\* chunk, in the order of the chunks, and the vector of row i is the
\* embedding the provider returned for the content of chunk i, whatever the
\* embedding batch size and the store batch size.
C35_EveryChunkStoredWithItsEmbedding ==
    (wf.step = "done" /\ wf.out = "stored") =>
        /\ Len(store) = Len(wf.chunks)
        /\ \A k \in 1..Len(store) :
              /\ store[k].id = wf.chunks[k].id
              /\ store[k].content = wf.chunks[k].content
              /\ store[k].vector = "vector of " \o wf.chunks[k].content

\* C35 witness: four chunks were embedded in batches of 3 and stored in
\* batches of 2, and the stage has returned its success.
C35_Witness ==
    /\ wf.step = "done"
    /\ wf.out = "stored"
    /\ Len(wf.chunks) = 4
    /\ effectiveBatchSize(wf) = 3
    /\ wf.storeBatchSize = 2
    /\ Len(store) = 4


\* C39: when the file loop is over, the chunks collected are the chunks of
\* the files that were processed, file after file in the order of the
\* listing, whatever the order in which the files of a batch settled.
C39_ChunksInListingOrder ==
    (wf.batchSize > 0 /\ wf.pending = {} /\ wf.i >= Len(repo)) =>
        /\ wf.allChunks = allChunksFrom(repo, wf.failed, 1)
        /\ \A a, b \in 1..Len(wf.allChunks) :
              (a < b /\ wf.allChunks[a].source = wf.allChunks[b].source) =>
                  \E m, n \in 0..MaxPieces :
                      /\ m < n
                      /\ wf.allChunks[a].id = wf.allChunks[a].source \o ":" \o ToString(m)
                      /\ wf.allChunks[b].id = wf.allChunks[b].source \o ":" \o ToString(n)

\* C39 witness: the two files of one batch settled last file first, both
\* with chunks, and the file loop is over.
C39_Witness ==
    /\ wf.batchSize = 2
    /\ wf.settled = <<2, 1>>
    /\ wf.failed = {}
    /\ wf.pending = {}
    /\ Len(repo) = 2
    /\ repo[1].pieces > 0
    /\ repo[2].pieces > 0
    /\ wf.allChunks[1].source = repo[1].path


\* The number of events of `calls` that are `ev` of `call`.
countOf(call, ev) ==
    Cardinality({q \in 1..Len(calls) : calls[q].call = call /\ calls[q].ev = ev})

C37_PartialIndexIsReinitialized ==
    (/\ wf.step = "checked"
     /\ wf.out = "store failed"
     /\ Len(store) > 0
     /\ Len(store) < Len(wf.chunks))
        => wf.needsInitialization

-----------------------------------------------------------------------------
(* What a workflow run reports of its initialization.                      *)

\* C38: a finished run that reports initialized = true reports a positive
\* number of stored chunks, and the index has grown by that number of rows
\* since the run began.
C38_InitializedMeansStored ==
    (wf.step = "done" /\ wf.output.initialized) =>
        /\ wf.output.storedChunks > 0
        /\ Len(store) = wf.rowsAtStart + wf.output.storedChunks


\* C36: two searches issued together on one instance that is not initialized
\* run the initialization at most once: the repository is listed at most once
\* and no file is fetched twice.
C36_InitializationRunsOnce ==
    /\ Cardinality({k \in 1..Len(calls) : calls[k].call = "getMarkdownFiles"}) <= 1
    /\ \A j, k \in 1..Len(calls) :
          (/\ j # k
           /\ calls[j].call = "getFileContent"
           /\ calls[k].call = "getFileContent") => calls[j].path # calls[k].path

====
